---------------------------- MODULE Spec2Model ----------------------------
(***************************************************************************)
(* A model of the PainPointer analysis pipeline:                           *)
(*   RedditClient.getPostsWithComments   (lib/reddit-client.ts)            *)
(*   PainPointExtractor                  (lib/pain-point-extractor.ts)     *)
(*   GeminiAnalyzer                      (lib/gemini-analyzer.ts)          *)
(*   POST /api/analyze                   (app/api/analyze/route.ts)        *)
(* Texts are TLA+ strings and the string functions of the code are         *)
(* computed character by character.                                        *)
(***************************************************************************)
EXTENDS Integers, Sequences, FiniteSets, TLC

\* ------------------------------------------------------------------ bounds

\* Number of distinct posts the content source can offer to one run.
NumPosts == 5

\* Number of posts of the large scenario (each yields two candidates, so the
\* relevance filter sees more than one batch).
NumBulk == 6

\* ----------------------------------------------------------- JS primitives

Min(a, b) == IF a < b THEN a ELSE b

Max(a, b) == IF a < b THEN b ELSE a

Range(s) == {s[i] : i \in DOMAIN s}

UpperChars == "ABCDEFGHIJKLMNOPQRSTUVWXYZ"

LowerChars == "abcdefghijklmnopqrstuvwxyz"

CharAt(s, i) == SubSeq(s, i, i)

\* String.prototype.toLowerCase on one character (ASCII).
LowerChar(c) ==
  IF \E i \in 1..26 : CharAt(UpperChars, i) = c
  THEN CharAt(LowerChars, CHOOSE i \in 1..26 : CharAt(UpperChars, i) = c)
  ELSE c

RECURSIVE toLowerCase(_)
toLowerCase(s) ==
  IF Len(s) = 0 THEN ""
  ELSE LowerChar(CharAt(s, 1)) \o toLowerCase(SubSeq(s, 2, Len(s)))

\* String.prototype.substring(0, n): clamps n to the length.
substring0(s, n) == SubSeq(s, 1, Min(n, Len(s)))

\* Whether string k occurs in t starting at position i (1-based).
HasAt(t, i, k) ==
  /\ i >= 1
  /\ i + Len(k) - 1 <= Len(t)
  /\ SubSeq(t, i, i + Len(k) - 1) = k

\* String.prototype.includes.
includes(t, k) == \E i \in 1..(Len(t) - Len(k) + 1) : HasAt(t, i, k)

IsNewline(c) == c = "\n"

IsSpace(c) == c \in {" ", "\n", "\t"}

\* text.replace(/\n+/g, ' '): every maximal run of newlines becomes one space.
RECURSIVE collapseNewlines(_)
collapseNewlines(s) ==
  IF Len(s) = 0 THEN ""
  ELSE IF IsNewline(CharAt(s, 1))
       THEN IF Len(s) >= 2 /\ IsNewline(CharAt(s, 2))
            THEN collapseNewlines(SubSeq(s, 2, Len(s)))
            ELSE " " \o collapseNewlines(SubSeq(s, 2, Len(s)))
       ELSE CharAt(s, 1) \o collapseNewlines(SubSeq(s, 2, Len(s)))

RECURSIVE trimStart(_)
trimStart(s) ==
  IF Len(s) > 0 /\ IsSpace(CharAt(s, 1)) THEN trimStart(SubSeq(s, 2, Len(s))) ELSE s

RECURSIVE trimEnd(_)
trimEnd(s) ==
  IF Len(s) > 0 /\ IsSpace(CharAt(s, Len(s)))
  THEN trimEnd(SubSeq(s, 1, Len(s) - 1)) ELSE s

\* String.prototype.trim.
trim(s) == trimEnd(trimStart(s))

\* Array.prototype.filter.
SeqFilter(s, Keep(_)) == SelectSeq(s, Keep)

\* Array.prototype.map.
SeqMap(s, Op(_)) == [i \in 1..Len(s) |-> Op(s[i])]

\* One insertion of a stable descending sort of <<key, element>> pairs: x
\* goes after the last pair whose key is not smaller than its own.
InsertDesc(sorted, x) ==
  LET smaller == {i \in 1..Len(sorted) : sorted[i][1] < x[1]}
      p == IF smaller = {} THEN Len(sorted) + 1
           ELSE CHOOSE i \in smaller : \A j \in smaller : i <= j
  IN SubSeq(sorted, 1, p - 1) \o <<x>> \o SubSeq(sorted, p, Len(sorted))

\* The insertions of keyed[lo..hi], in order: the front half, then (once that
\* has been worked out) the back half.
RECURSIVE InsertRange(_, _, _, _)
InsertRange(sorted, keyed, lo, hi) ==
  IF lo > hi THEN sorted
  ELSE IF lo = hi THEN InsertDesc(sorted, keyed[lo])
  ELSE LET mid == (lo + hi) \div 2
           front == InsertRange(sorted, keyed, lo, mid)
       IN IF Len(front) >= 0 THEN InsertRange(front, keyed, mid + 1, hi) ELSE front

\* Array.prototype.sort with comparator (a, b) => Key(b) - Key(a): a stable
\* sort (ECMAScript 2019) into non-increasing Key order.
SortDesc(s, Key(_)) ==
  LET keyed == [i \in 1..Len(s) |-> <<Key(s[i]), s[i]>>]
      sorted == InsertRange(<<>>, keyed, 1, Len(s))
  IN [i \in 1..Len(s) |-> sorted[i][2]]

\* Array.prototype.slice(0, n).
slice0(s, n) == SubSeq(s, 1, Min(n, Len(s)))

\* ------------------------------------------- PainPointExtractor: detection

COMPLAINT_KEYWORDS ==
  { "hate", "awful", "terrible", "worst", "horrible", "annoying", "frustrating",
    "useless", "broken", "buggy", "slow", "expensive", "overpriced",
    "problem", "issue", "bug", "error", "fail", "crash", "freeze", "glitch",
    "doesn't work", "not working", "stopped working",
    "disappointed", "regret", "waste", "scam", "rip off", "avoid", "never again",
    "poor quality", "bad experience", "customer service", "support",
    "should fix", "needs to", "wish they would", "hope they", "better if",
    "why can't", "when will", "still waiting" }

\* A regular expression of NEGATIVE_PATTERNS as a sequence of elements: a set
\* of alternative literals, or {} for ".+" (one or more characters other than
\* a line terminator).
AnyChars == {}

NEGATIVE_PATTERNS ==
  { << {"why "}, {"does", "is", "are", "do"}, {" "}, AnyChars, {" "}, {"so", "such"},
       {" "}, AnyChars, {" "}, {"bad", "awful", "terrible", "slow", "expensive"} >>,
    << {"can't believe "}, AnyChars, {" "}, {"still", "doesn't", "won't"} >>,
    << {"hate", "dislike"}, {" "}, {"how", "that", "when"}, {" "}, AnyChars >>,
    << {"wish "}, AnyChars, {" "}, {"would", "could", "didn't"}, {" "}, AnyChars >>,
    << {"sick", "tired"}, {" "}, {"of", "from"}, {" "}, AnyChars >>,
    << {"what's wrong with "}, AnyChars >>,
    << {"anyone else", "does anyone"}, {" "}, {"hate", "dislike", "have problems"},
       {" "}, AnyChars >> }

\* Whether elements k.. of pattern pat match text t from position pos on.
RECURSIVE MatchFrom(_, _, _, _)
MatchFrom(t, pos, pat, k) ==
  IF k > Len(pat) THEN TRUE
  ELSE IF pat[k] = AnyChars
       THEN \E n \in 1..(Len(t) - pos + 1) :
              /\ \A j \in pos..(pos + n - 1) : ~IsNewline(CharAt(t, j))
              /\ MatchFrom(t, pos + n, pat, k + 1)
       ELSE \E l \in pat[k] : HasAt(t, pos, l) /\ MatchFrom(t, pos + Len(l), pat, k + 1)

\* RegExp.prototype.test of a case-insensitive, unanchored pattern.
PatternTest(pat, text) ==
  LET t == toLowerCase(text) IN \E pos \in 1..Len(t) : MatchFrom(t, pos, pat, 1)

containsPainPoint(text) ==
  LET lowerText == toLowerCase(text)
      hasComplaintKeywords ==
        \E keyword \in COMPLAINT_KEYWORDS : includes(lowerText, toLowerCase(keyword))
      hasNegativePatterns == \E pattern \in NEGATIVE_PATTERNS : PatternTest(pattern, text)
      isComplaintQuestion ==
        /\ includes(lowerText, "?")
        /\ (includes(lowerText, "why") \/ includes(lowerText, "how"))
        /\ (includes(lowerText, "bad") \/ includes(lowerText, "slow")
              \/ includes(lowerText, "broken"))
  IN hasComplaintKeywords \/ hasNegativePatterns \/ isComplaintQuestion

\* Length above which extractRelevantText cuts a text.
SnippetLen == 200

extractRelevantText(text) ==
  LET cleanText == trim(collapseNewlines(text))
  IN IF Len(cleanText) > SnippetLen
     THEN substring0(cleanText, SnippetLen) \o "..."
     ELSE cleanText

calculateEngagementScore(score, numComments) == score + (numComments * 2)

\* ------------------------------------------ PainPointExtractor: extraction

\* The candidates of one post, in scan order: title, body, then replies.
PostPainPoints(post) ==
  LET fromTitle ==
        IF containsPainPoint(post.title)
        THEN << [ id |-> post.id \o "_title",
                  content |-> post.title,
                  source |-> "title",
                  score |-> post.score,
                  num_comments |-> post.num_comments,
                  subreddit |-> post.subreddit,
                  url |-> post.url,
                  created_utc |-> post.created_utc,
                  engagementScore |->
                    calculateEngagementScore(post.score, post.num_comments),
                  present |-> TRUE, contentIsString |-> TRUE ] >>
        ELSE <<>>
      fromBody ==
        IF post.selftext # "" /\ containsPainPoint(post.selftext)
        THEN << [ id |-> post.id \o "_post",
                  content |-> extractRelevantText(post.selftext),
                  source |-> "post",
                  score |-> post.score,
                  num_comments |-> post.num_comments,
                  subreddit |-> post.subreddit,
                  url |-> post.url,
                  created_utc |-> post.created_utc,
                  engagementScore |->
                    calculateEngagementScore(post.score, post.num_comments),
                  present |-> TRUE, contentIsString |-> TRUE ] >>
        ELSE <<>>
      ofComment(comment) ==
        [ id |-> comment.id \o "_comment",
          content |-> extractRelevantText(comment.body),
          source |-> "comment",
          score |-> comment.score,
          num_comments |-> 0,
          subreddit |-> post.subreddit,
          url |-> post.url,
          created_utc |-> comment.created_utc,
          engagementScore |-> calculateEngagementScore(comment.score, 0),
          present |-> TRUE, contentIsString |-> TRUE ]
      painful(comment) == containsPainPoint(comment.body)
      fromComments == SeqMap(SeqFilter(post.comments, painful), ofComment)
  IN fromTitle \o fromBody \o fromComments

\* Length of the content prefix used as the deduplication key.
DedupKeyLen == 50

DedupKey(point) == substring0(toLowerCase(point.content), DedupKeyLen)

\* Cap of deduplicateAndSort.
MaxPainPoints == 100

EngagementOf(point) == point.engagementScore

\* The filter of deduplicateAndSort: the first candidate of each key.
Deduplicated(painPoints) ==
  LET firstOfKey(i) == \A j \in 1..(i - 1) : DedupKey(painPoints[j]) # DedupKey(painPoints[i])
      D[i \in 0..Len(painPoints)] ==
        IF i = 0 THEN <<>>
        ELSE IF firstOfKey(i) THEN Append(D[i - 1], painPoints[i]) ELSE D[i - 1]
  IN D[Len(painPoints)]

\* deduplicateAndSort sorting before it removes duplicates: of each key the
\* candidate of the highest engagement is kept.
deduplicateAndSort_KeepBest(painPoints) ==
  slice0(Deduplicated(SortDesc(painPoints, EngagementOf)), MaxPainPoints)

\* deduplicateAndSort cutting to the cap before it sorts.
deduplicateAndSort_CapFirst(painPoints) ==
  SortDesc(slice0(Deduplicated(painPoints), MaxPainPoints), EngagementOf)

deduplicateAndSort(painPoints) ==
  slice0(SortDesc(Deduplicated(painPoints), EngagementOf), MaxPainPoints)

\* The candidates of all posts before deduplication, in scan order.
ScannedPainPoints(posts) ==
  LET P[i \in 0..Len(posts)] ==
        IF i = 0 THEN <<>> ELSE P[i - 1] \o PostPainPoints(posts[i])
  IN P[Len(posts)]

extractPainPoints(posts) == deduplicateAndSort(ScannedPainPoints(posts))

\* Default threshold of filterByEngagement.
DefaultMinScore == 5

\* A candidate built from an undefined batch slot has no engagementScore, and
\* undefined >= minScore is false.
filterByEngagement(painPoints, minScore) ==
  LET keep(point) == point.present /\ point.engagementScore >= minScore
  IN SeqFilter(painPoints, keep)

\* ------------------------------------------------- AI relevance filter

\* const batchSize = 10
batchSize == 10

\* The batches of aiFilterRelevantPainPoints: painPoints.slice(i, i + batchSize)
\* for i = 0, batchSize, 2 * batchSize, ...
NumBatches(painPoints) == (Len(painPoints) + batchSize - 1) \div batchSize

BatchAt(painPoints, b) ==
  SubSeq(painPoints, (b - 1) * batchSize + 1, Min(b * batchSize, Len(painPoints)))

\* One element of the array the model answers with.  isNull: the element is
\* null (reading .relevant of it throws).  relevant: element.relevant === true.
\* pain_point: the restatement, "" when empty or absent.  isString: pain_point
\* is a JSON string (otherwise pain_point is the value as a template literal
\* prints it).
Restatement == "The app is too slow"

VNull == [isNull |-> TRUE, relevant |-> FALSE, pain_point |-> "", isString |-> TRUE]

VRestated ==
  [isNull |-> FALSE, relevant |-> TRUE, pain_point |-> Restatement, isString |-> TRUE]

VAsIs == [isNull |-> FALSE, relevant |-> TRUE, pain_point |-> "", isString |-> TRUE]

VDrop ==
  [isNull |-> FALSE, relevant |-> FALSE, pain_point |-> "irrelevant", isString |-> TRUE]

\* { "relevant": true, "pain_point": 42 }
VNumber == [isNull |-> FALSE, relevant |-> TRUE, pain_point |-> "42", isString |-> FALSE]

Verdicts == {VNull, VRestated, VAsIs, VDrop}

\* What one generation request of the filter can come to:
\*   "throw"   generateContent or response.text() throws
\*   "quota"   generateContent throws an error whose message names the quota
\*   "badjson" JSON.parse throws
\*   "null"    the text is the JSON value null (reading .length throws)
\*   "object"  the text is a JSON object (its .length is undefined)
\*   "array"   the text is a JSON array, items its elements
RelevanceResponse(kind, items) == [kind |-> kind, items |-> items]

\* { ...undefined, content: pain_point }: the object built for a verdict whose
\* position is beyond the batch.  It has a content and no other property.
NoBatchItem(content) ==
  [ id |-> "undefined", content |-> content, source |-> "undefined", score |-> 0,
    num_comments |-> 0, subreddit |-> "undefined", url |-> "undefined",
    created_utc |-> 0, engagementScore |-> 0, present |-> FALSE,
    contentIsString |-> TRUE ]

\* Whether iteration i of the loop over aiResults throws (a TypeError).
VerdictThrows(batch, items, i) ==
  \/ items[i].isNull
  \/ /\ items[i].relevant
     /\ i > Len(batch)
     /\ items[i].pain_point = ""

\* The object pushed by iteration i, which does not throw and is relevant.
VerdictPush(batch, items, i) ==
  IF i <= Len(batch)
  THEN IF items[i].pain_point # ""
       THEN [batch[i] EXCEPT !.content = items[i].pain_point,
                             !.contentIsString = items[i].isString]
       ELSE batch[i]
  ELSE [NoBatchItem(items[i].pain_point) EXCEPT !.contentIsString = items[i].isString]

\* What the try/catch of one batch appends to relevantPainPoints.
BatchContribution(batch, resp) ==
  IF resp.kind \in {"throw", "quota", "badjson", "null"} THEN batch
  ELSE IF resp.kind = "object" THEN <<>>
  ELSE LET items == resp.items
           throwing == {i \in 1..Len(items) : VerdictThrows(batch, items, i)}
           stop == IF throwing = {} THEN Len(items) + 1
                   ELSE CHOOSE i \in throwing : \A j \in throwing : i <= j
           K[i \in 0..Len(items)] ==
             IF i = 0 THEN <<>>
             ELSE IF items[i].relevant
                  THEN Append(K[i - 1], VerdictPush(batch, items, i))
                  ELSE K[i - 1]
       IN IF throwing = {} THEN K[Len(items)] ELSE K[stop - 1] \o batch

\* ------------------------------------------------------- GeminiAnalyzer

IsLowerAlnumOrDash(c) ==
  \E i \in 1..Len("abcdefghijklmnopqrstuvwxyz0123456789-") :
    CharAt("abcdefghijklmnopqrstuvwxyz0123456789-", i) = c

\* s.replace(/\s+/g, '-'): every maximal run of white space becomes one dash.
RECURSIVE dashSpaces(_)
dashSpaces(s) ==
  IF Len(s) = 0 THEN ""
  ELSE IF IsSpace(CharAt(s, 1))
       THEN IF Len(s) >= 2 /\ IsSpace(CharAt(s, 2))
            THEN dashSpaces(SubSeq(s, 2, Len(s)))
            ELSE "-" \o dashSpaces(SubSeq(s, 2, Len(s)))
       ELSE CharAt(s, 1) \o dashSpaces(SubSeq(s, 2, Len(s)))

\* s.replace(/[^a-z0-9-]/g, '')
RECURSIVE keepSlugChars(_)
keepSlugChars(s) ==
  IF Len(s) = 0 THEN ""
  ELSE (IF IsLowerAlnumOrDash(CharAt(s, 1)) THEN CharAt(s, 1) ELSE "")
         \o keepSlugChars(SubSeq(s, 2, Len(s)))

generateCategoryId(name) == keepSlugChars(dashSpaces(toLowerCase(name)))

\* reduce((sum, point) => sum + point.engagementScore, 0)
TotalEngagement(points) ==
  LET T[i \in 0..Len(points)] ==
        IF i = 0 THEN 0 ELSE T[i - 1] + points[i].engagementScore
  IN T[Len(points)]

\* Math.round of the quotient total / n, n > 0: the nearest integer, halves
\* towards plus infinity.
RoundDiv(total, n) == (2 * total + n) \div (2 * n)

\* The number calculateAverageEngagement returns, when it is a number.
calculateAverageEngagement(points) ==
  IF Len(points) = 0 THEN 0 ELSE RoundDiv(TotalEngagement(points), Len(points))

\* Whether calculateAverageEngagement returns NaN: a member without an
\* engagementScore makes the sum NaN.
AverageIsNaN(points) == \E i \in 1..Len(points) : ~points[i].present

Category(name, description, points, summary) ==
  [ id |-> generateCategoryId(name),
    name |-> name,
    description |-> description,
    painPoints |-> points,
    count |-> Len(points),
    averageEngagement |-> calculateAverageEngagement(points),
    averageIsNaN |-> AverageIsNaN(points),
    summary |-> summary ]

\* The table of fallbackCategorization, in the order Object.entries gives.
categoryKeywords ==
  << [name |-> "Performance Issues",
      keywords |-> {"slow", "lag", "freeze", "crash", "performance", "speed"}],
     [name |-> "User Interface",
      keywords |-> {"ui", "interface", "design", "layout", "confusing", "hard to use"}],
     [name |-> "Bugs & Errors",
      keywords |-> {"bug", "error", "broken", "not working", "glitch", "fail"}],
     [name |-> "Pricing & Value",
      keywords |-> {"expensive", "price", "cost", "money", "overpriced", "cheap"}],
     [name |-> "Customer Service",
      keywords |-> {"support", "service", "help", "response", "staff", "rude"}],
     [name |-> "Feature Requests",
      keywords |-> {"wish", "should", "need", "want", "missing", "add"}],
     [name |-> "Quality Issues",
      keywords |-> {"quality", "poor", "bad", "terrible", "awful", "horrible"}] >>

\* Whether rule-set r matches the candidate's text.
RuleMatches(r, text) == \E keyword \in categoryKeywords[r].keywords : includes(text, keyword)

\* FallbackNamesOf with the last rule-set that matches.
FallbackNamesOf_LastRule(painPoint) ==
  LET text == toLowerCase(painPoint.content)
      matching == {r \in 1..Len(categoryKeywords) : RuleMatches(r, text)}
  IN IF matching = {} THEN {"Other Issues"}
     ELSE {categoryKeywords[CHOOSE r \in matching : \A q \in matching : r >= q].name}

\* The names of the Map entries one candidate is pushed to: the first rule-set
\* that matches (the loop breaks there), "Other Issues" when none does.
FallbackNamesOf(painPoint) ==
  LET text == toLowerCase(painPoint.content)
      matching == {r \in 1..Len(categoryKeywords) : RuleMatches(r, text)}
  IN IF matching = {} THEN {"Other Issues"}
     ELSE {categoryKeywords[CHOOSE r \in matching : \A q \in matching : r <= q].name}

\* The place of a name in the table order ("Other Issues" comes last: it is
\* set after the loop over the rule-sets).
RuleRank(name) ==
  IF \E r \in 1..Len(categoryKeywords) : categoryKeywords[r].name = name
  THEN CHOOSE r \in 1..Len(categoryKeywords) : categoryKeywords[r].name = name
  ELSE Len(categoryKeywords) + 1

\* The keys of the Map in insertion order, given each candidate's names: by
\* the first candidate pushed to the key, then by table order.
MapKeys(namesOf) ==
  LET names == UNION Range(namesOf)
      first(name) == CHOOSE i \in 1..Len(namesOf) :
                       /\ name \in namesOf[i]
                       /\ \A j \in 1..(i - 1) : name \notin namesOf[j]
      before(a, b) ==
        \/ first(a) < first(b)
        \/ first(a) = first(b) /\ RuleRank(a) < RuleRank(b)
  IN [k \in 1..Cardinality(names) |->
        CHOOSE name \in names : Cardinality({other \in names : before(other, name)}) = k - 1]

\* The categories built from the Map.
FallbackCategories(painPoints, namesOf) ==
  LET keys == MapKeys(namesOf)
      pointsOf(name) ==
        LET M[i \in 0..Len(painPoints)] ==
              IF i = 0 THEN <<>>
              ELSE IF name \in namesOf[i] THEN Append(M[i - 1], painPoints[i])
                   ELSE M[i - 1]
        IN M[Len(painPoints)]
  IN [k \in 1..Len(keys) |->
        Category(keys[k], "Issues related to " \o toLowerCase(keys[k]), pointsOf(keys[k]),
                 "Common " \o toLowerCase(keys[k]) \o " reported by users")]

\* fallbackCategorization without the `if (!assigned)` block: a candidate no
\* rule-set matches is left out.
FallbackNamesOf_NoOther(painPoint) ==
  LET text == toLowerCase(painPoint.content)
      matching == {r \in 1..Len(categoryKeywords) : RuleMatches(r, text)}
  IN IF matching = {} THEN {}
     ELSE {categoryKeywords[CHOOSE r \in matching : \A q \in matching : r <= q].name}

fallbackCategorization_NoOther(painPoints) ==
  FallbackCategories(painPoints,
                     [i \in 1..Len(painPoints) |-> FallbackNamesOf_NoOther(painPoints[i])])

fallbackCategorization(painPoints) ==
  FallbackCategories(painPoints, [i \in 1..Len(painPoints) |-> FallbackNamesOf(painPoints[i])])

\* What the categorization request can come to:
\*   "throw"   generateContent or response.text() throws
\*   "quota"   generateContent throws an error whose message names the quota
\*   "nojson"  the text has no {...}
\*   "badjson" JSON.parse throws
\*   "parsed"  a JSON object; hasCategories: it has an iterable `categories`,
\*             each with a name, a description, and (hasIndexes) an array
\*             painPointIndexes
CategorizationResponse(kind, hasCategories, cats) ==
  [kind |-> kind, hasCategories |-> hasCategories, categories |-> cats]

\* category.painPointIndexes.map(index => painPoints[index]).filter(Boolean)
ResolveIndexes(indexes, painPoints) ==
  LET R[i \in 0..Len(indexes)] ==
        IF i = 0 THEN <<>>
        ELSE IF indexes[i] >= 0 /\ indexes[i] < Len(painPoints)
             THEN Append(R[i - 1], painPoints[indexes[i] + 1])
             ELSE R[i - 1]
  IN R[Len(indexes)]

\* Whether the try block of parseCategorizationResponse throws.
ParseThrows(resp) ==
  \/ resp.kind \in {"nojson", "badjson"}
  \/ ~resp.hasCategories
  \/ \E k \in 1..Len(resp.categories) : ~resp.categories[k].hasIndexes

parseCategorizationResponse(resp, painPoints) ==
  IF ParseThrows(resp) THEN fallbackCategorization(painPoints)
  ELSE LET C[k \in 0..Len(resp.categories)] ==
             IF k = 0 THEN <<>>
             ELSE LET category == resp.categories[k]
                      categoryPainPoints == ResolveIndexes(category.painPointIndexes, painPoints)
                  IN IF Len(categoryPainPoints) > 0
                     THEN Append(C[k - 1], Category(category.name, category.description,
                                                    categoryPainPoints, ""))
                     ELSE C[k - 1]
       IN C[Len(resp.categories)]

\* Whether performCategorization ends in fallbackCategorization.
TakesFallback(resp) == resp.kind \in {"throw", "quota"} \/ ParseThrows(resp)

\* Whether fallbackCategorization throws: painPoint.content.toLowerCase() is a
\* TypeError for a content that is not a string.
FallbackThrows(painPoints) == \E i \in 1..Len(painPoints) : ~painPoints[i].contentIsString

\* Whether performCategorization throws: nothing catches what the fallback
\* throws in the catch blocks.
CategorizationThrows(painPoints, resp) == TakesFallback(resp) /\ FallbackThrows(painPoints)

performCategorization(painPoints, resp) ==
  IF resp.kind \in {"throw", "quota"} THEN fallbackCategorization(painPoints)
  ELSE parseCategorizationResponse(resp, painPoints)

\* The catch of generateCategorySummaries.
\* TemplatedSummary with the name as it is written.
TemplatedSummary_NoLower(category) == "Common issues related to " \o category.name

TemplatedSummary(category) == "Common issues related to " \o toLowerCase(category.name)

\* Length of topCategories.
TopN == 10

CountOf(category) == category.count

\* AnalysisResult with the sum of the category counts as totalPainPoints.
AnalysisResult_SumOfCounts(categoriesWithSummaries, painPoints) ==
  LET sorted == SortDesc(categoriesWithSummaries, CountOf)
      T[k \in 0..Len(sorted)] == IF k = 0 THEN 0 ELSE T[k - 1] + sorted[k].count
  IN [ kind |-> "result", categories |-> sorted, totalPainPoints |-> T[Len(sorted)],
       topCategories |-> slice0(sorted, TopN), message |-> "" ]

\* AnalysisResult with the first categories, unsorted, as topCategories.
AnalysisResult_TopUnsorted(categoriesWithSummaries, painPoints) ==
  [ kind |-> "result", categories |-> categoriesWithSummaries,
    totalPainPoints |-> Len(painPoints),
    topCategories |-> slice0(categoriesWithSummaries, TopN), message |-> "" ]

\* The value categorizePainPoints returns.  Array.prototype.sort sorts
\* categoriesWithSummaries in place and returns it, so `categories` is the
\* sorted array and topCategories a slice of it.
AnalysisResult(categoriesWithSummaries, painPoints) ==
  LET sorted == SortDesc(categoriesWithSummaries, CountOf)
  IN [ kind |-> "result", categories |-> sorted, totalPainPoints |-> Len(painPoints),
       topCategories |-> slice0(sorted, TopN), message |-> "" ]

\* ------------------------------------------------------------ the inputs

DigitChars == "0123456789"

RECURSIVE IntToStr(_)
IntToStr(n) ==
  IF n < 10 THEN CharAt(DigitChars, n + 1)
  ELSE IntToStr(n \div 10) \o CharAt(DigitChars, (n % 10) + 1)

\* The posts the content source offers.  Every one passes the ingestion
\* filter of the search strategies (a title, and a body or a title of more
\* than 15 characters), and carries comments: [] as the strategies set it.
PostTable ==
  << [title |-> "App is slow and broken today", selftext |-> "",
      score |-> 10, num_comments |-> 5],
     [title |-> "Why is the new UI so bad?",
      selftext |-> "I hate how the layout changed.\n\nWish they would revert it ",
      score |-> 3, num_comments |-> 1],
     [title |-> "Great product overall, love it", selftext |-> "Works fine for me",
      score |-> 50, num_comments |-> 20],
     [title |-> "Refund took three weeks",
      selftext |-> "Customer service is rude and the price is too expensive",
      score |-> 1, num_comments |-> 0],
     [title |-> "APP IS SLOW and broken today", selftext |-> "Crashes every time I open it",
      score |-> 0, num_comments |-> 0],
     [title |-> "Still waiting for my order",
      selftext |-> "It stopped working after the update",
      score |-> 2, num_comments |-> 3] >>

Post(i) ==
  LET row == PostTable[((i - 1) % Len(PostTable)) + 1]
  IN [ id |-> "p" \o IntToStr(i), title |-> row.title, selftext |-> row.selftext,
       score |-> row.score, num_comments |-> row.num_comments,
       url |-> "https://redd.it/p" \o IntToStr(i),
       subreddit |-> IF i % 2 = 0 THEN "apps" ELSE "technology",
       created_utc |-> 1700000000 + i, comments |-> <<>> ]

\* The posts of the large scenario: each has a complaint in its title and
\* another in its body, all with different texts.
BulkPost(i) ==
  [ id |-> "b" \o IntToStr(i),
    title |-> "Problem report number " \o IntToStr(i),
    selftext |-> "The app has bug number " \o IntToStr(i),
    score |-> i, num_comments |-> 0,
    url |-> "https://redd.it/b" \o IntToStr(i), subreddit |-> "bugs",
    created_utc |-> 1700000100 + i, comments |-> <<>> ]

PostEngagement(post) == post.score + post.num_comments

\* config.app.maxPosts
maxPosts == 50

\* A set of posts as getPostsWithComments returns it: sorted by descending
\* (score + num_comments) and cut to maxPosts.
RECURSIVE SetToSeq(_)
SetToSeq(S) ==
  IF S = {} THEN <<>>
  ELSE LET x == CHOOSE x \in S : TRUE IN <<x>> \o SetToSeq(S \ {x})

AsReturnedBySearch(S) == slice0(SortDesc(SetToSeq(S), PostEngagement), maxPosts)

SearchOutcomes ==
  {AsReturnedBySearch(S) : S \in SUBSET {Post(i) : i \in 1..NumPosts}}
    \cup {AsReturnedBySearch({BulkPost(i) : i \in 1..NumBulk})}

Rep(v, k) == [i \in 1..k |-> v]

\* Longest answer array enumerated element by element.
MaxEnumLen == 2

\* The answers to the request for a batch of n candidates: the failures, every
\* array of up to MaxEnumLen verdicts, and arrays shorter than, as long as, and
\* longer than the batch.
RelevanceResponses(n) ==
  {RelevanceResponse(k, <<>>) : k \in {"throw", "badjson", "null", "object"}}
    \cup {RelevanceResponse("array", a) :
            a \in UNION {[1..k -> Verdicts] : k \in 0..MaxEnumLen}}
    \cup {RelevanceResponse("array", Rep(v, k)) :
            v \in {VRestated, VAsIs, VDrop}, k \in {Max(n - 1, 0), n, n + 1}}
    \cup {RelevanceResponse("array", Rep(VAsIs, Max(n - 1, 0)) \o <<VNull>>),
          RelevanceResponse("array", Rep(VRestated, n) \o <<VAsIs>>),
          RelevanceResponse("array", [i \in 1..n |-> IF i % 2 = 1 THEN VRestated ELSE VDrop])}

\* Longest enumerated list handed to the categorizer.
MaxCatInput == 2

\* Length of the long list handed to the categorizer (beyond the 50 of the prompt).
CatBulkLen == 52

\* Candidates the route can hand to the categorizer: the extracted titles of
\* three posts, and one built from an undefined batch slot.
CatUniverse ==
  LET extracted == extractPainPoints(AsReturnedBySearch({Post(1), Post(2), Post(6)}))
  IN {c \in Range(extracted) : c.source = "title"} \cup {NoBatchItem(Restatement)}

BulkContents ==
  << "App is slow and broken today", "Why is the new UI so bad?",
     "Still waiting for my order" >>

BulkCandidate(i) ==
  [ id |-> "b" \o IntToStr(i) \o "_title",
    content |-> BulkContents[(i % Len(BulkContents)) + 1],
    source |-> "title", score |-> i % 5, num_comments |-> 0, subreddit |-> "bugs",
    url |-> "https://redd.it/b" \o IntToStr(i), created_utc |-> 1700000100 + i,
    engagementScore |-> calculateEngagementScore(i % 5, 0), present |-> TRUE, contentIsString |-> TRUE ]

CatInputs ==
  UNION {[1..n -> CatUniverse] : n \in 1..MaxCatInput}
    \cup {[i \in 1..CatBulkLen |-> BulkCandidate(i)]}

\* The index lists a category of the answer can carry for n candidates: in
\* range, repeated, out of range, beyond the prompt window, negative.
IndexLists(n) ==
  {<<>>, <<0>>, <<1>>, <<0, 1>>, <<0, 0>>, <<n>>, <<n - 1, 50>>, <<-1, 0>>}

AnswerCategory(name, indexes) ==
  [ name |-> name, description |-> "About " \o name, hasIndexes |-> TRUE,
    painPointIndexes |-> indexes ]

AnswerCategoryNoIndexes(name) ==
  [ name |-> name, description |-> "About " \o name, hasIndexes |-> FALSE,
    painPointIndexes |-> <<>> ]

\* An answer with one category more than topCategories holds, of 1 to 5
\* members each.
ManyCategories ==
  CategorizationResponse("parsed", TRUE,
    [k \in 1..(TopN + 1) |->
       AnswerCategory("Topic " \o IntToStr(k), [j \in 1..(((k * 3) % 5) + 1) |-> j + k])])

CategorizationResponses(n) ==
  {CategorizationResponse(k, FALSE, <<>>) : k \in {"throw", "nojson", "badjson", "parsed"}}
    \cup {CategorizationResponse("parsed", TRUE, <<>>)}
    \cup {CategorizationResponse("parsed", TRUE, <<AnswerCategory("Speed & Stability", x)>>) :
            x \in IndexLists(n)}
    \cup {CategorizationResponse("parsed", TRUE,
            <<AnswerCategory("Speed & Stability", x), AnswerCategory("Design Problems", y)>>) :
            x \in IndexLists(n), y \in IndexLists(n)}
    \cup {CategorizationResponse("parsed", TRUE, <<AnswerCategoryNoIndexes("Speed & Stability")>>),
          CategorizationResponse("parsed", TRUE,
            <<AnswerCategory("Speed & Stability", <<0>>),
              AnswerCategoryNoIndexes("Design Problems")>>)}
    \cup (IF n > TopN + 5 THEN {ManyCategories} ELSE {})

\* The text of a summary the model generates, before trim().
GeneratedSummary == " Users report recurring problems. "

\* The summary requests of the first LiveSummaries categories are followed one
\* by one; the requests of the other categories succeed before these settle.
LiveSummaries == 3

\* ------------------------------------------------ RedditClient: the search

\* The strategies, in the order getPostsWithComments pushes their promises.
Strategies == << "direct", "community", "variation", "time" >>

\* The limits getPostsWithComments passes to the four strategies.
DirectLimit == 100

CommunityLimit == 100

VariationLimit == 80

TimeLimit == 70

\* suggestions.slice(0, 8)
MaxSuggested == 8

\* post.title.length > 15
MinTitleLen == 15

getFallbackSubreddits(term) ==
  LET t == toLowerCase(term)
  IN IF includes(t, "iphone") \/ includes(t, "apple") \/ includes(t, "ios")
     THEN << "apple", "iphone", "ios", "mobilephones", "smartphones", "technology" >>
     ELSE IF includes(t, "tesla")
               \/ (includes(t, "model")
                     /\ (includes(t, "3") \/ includes(t, "y") \/ includes(t, "s")))
     THEN << "tesla", "teslamotors", "electricvehicles", "cars", "automotive" >>
     ELSE IF includes(t, "netflix") \/ includes(t, "streaming")
     THEN << "netflix", "streaming", "cordcutters", "television", "movies" >>
     ELSE IF includes(t, "windows") \/ includes(t, "microsoft")
     THEN << "windows", "microsoft", "windows10", "windows11", "techsupport" >>
     ELSE IF includes(t, "playstation") \/ includes(t, "ps5") \/ includes(t, "ps4")
     THEN << "playstation", "ps5", "ps4", "gaming", "console" >>
     ELSE IF includes(t, "xbox")
     THEN << "xbox", "xboxone", "gaming", "console" >>
     ELSE << "technology", "gadgets", "reviews", "complaints", "mildlyinfuriating",
             "assholedesign" >>

\* The answer to the suggestion request: the request throws ("throw"), its
\* text is not JSON ("badjson"), or it parses to the array names ("array").
SuggestionResponse(kind, names) == [kind |-> kind, names |-> names]

getAISuggestedSubreddits(term, resp) ==
  IF resp.kind = "array" /\ Len(resp.names) > 0
  THEN slice0(resp.names, MaxSuggested)
  ELSE getFallbackSubreddits(term)

searchVariations(term) ==
  << term \o " problems", term \o " issues", term \o " complaints", term \o " broken",
     term \o " disappointed", term \o " hate", term \o " sucks", term \o " terrible",
     term \o " awful", term \o " worst" >>

timeRanges == << "week", "month", "year", "all" >>

\* The number of sub-queries a strategy sends.
QueryCount(strategy, term, suggestedSubreddits) ==
  CASE strategy = "direct" -> 1
    [] strategy = "community" -> Len(suggestedSubreddits)
    [] strategy = "variation" -> Len(searchVariations(term))
    [] strategy = "time" -> Len(timeRanges)

\* The number of documents a strategy takes from the listing of one sub-query:
\* limit, postsPerSubreddit, postsPerVariation, postsPerTimeRange.
PerQueryLimit(strategy, term, suggestedSubreddits) ==
  CASE strategy = "direct" -> DirectLimit
    [] strategy = "community" ->
         CommunityLimit \div QueryCount(strategy, term, suggestedSubreddits)
    [] strategy = "variation" ->
         VariationLimit \div QueryCount(strategy, term, suggestedSubreddits)
    [] strategy = "time" -> TimeLimit \div QueryCount(strategy, term, suggestedSubreddits)

\* post.title && (post.selftext || post.title.length > 15)
PassesIngestion(post) ==
  /\ post.title # ""
  /\ (post.selftext # "" \/ Len(post.title) > MinTitleLen)

\* The RedditPost a strategy builds from a listing entry (author, which
\* nothing reads afterwards, is left out).
FormatPost(post) ==
  [ id |-> post.id, title |-> post.title, selftext |-> post.selftext,
    score |-> post.score, num_comments |-> post.num_comments, url |-> post.url,
    subreddit |-> post.subreddit, created_utc |-> post.created_utc, comments |-> <<>> ]

\* Array.from(listing).slice(0, limit).filter(...).map(...)
IngestListing(listing, limit) ==
  SeqMap(SeqFilter(slice0(listing, limit), PassesIngestion), FormatPost)

\* The answer of the content source to one sub-query: a listing, or a failure.
ListingResponse(ok, listing) == [ok |-> ok, listing |-> listing]

\* The value the promise of one sub-query resolves to: every sub-query has its
\* own try/catch, which turns a failure into [].
SubQueryValue(resp, limit) ==
  IF resp.ok THEN IngestListing(resp.listing, limit) ELSE <<>>

\* A sub-query: not sent yet, in flight, or settled with the answer resp and
\* the value its promise resolved to.
Unsent == [state |-> "unsent", ok |-> FALSE, listing |-> <<>>, value |-> <<>>]

InFlight == [state |-> "pending", ok |-> FALSE, listing |-> <<>>, value |-> <<>>]

Settled(resp, value) ==
  [state |-> "settled", ok |-> resp.ok, listing |-> resp.listing, value |-> value]

\* The first LiveCommunities queries of the community strategy, the first
\* LiveVariations of the variation strategy and the first LiveTimeRanges of the
\* time strategy are followed one by one; the other queries of a strategy
\* return an empty listing before the followed ones settle.
LiveCommunities == 2

LiveVariations == 1

LiveTimeRanges == 1

Live(strategy) ==
  CASE strategy = "direct" -> 1
    [] strategy = "community" -> LiveCommunities
    [] strategy = "variation" -> LiveVariations
    [] strategy = "time" -> LiveTimeRanges

QueryIds == UNION {{<<s, k>> : k \in 1..Live(s)} : s \in Range(Strategies)}

\* The followed sub-queries a strategy has sent once it knows its query list.
SentBy(strategy, term, suggestedSubreddits) ==
  {<<strategy, k>> : k \in 1..Min(Live(strategy),
                                   QueryCount(strategy, term, suggestedSubreddits))}

\* Promise.allSettled over the sub-queries of a strategy has resolved.  The
\* community strategy sends its queries only once the suggestion has settled
\* (suggestedSubreddits is never empty then).
StrategySettled(strategy, term, suggestedSubreddits, subs) ==
  /\ strategy = "community" => Len(suggestedSubreddits) > 0
  /\ \A q \in SentBy(strategy, term, suggestedSubreddits) : subs[q].state = "settled"

\* StrategyPosts where one failed sub-query discards the whole strategy.
StrategyPosts_AbortOnFailure(strategy, subs) ==
  LET F[k \in 0..Live(strategy)] ==
        IF k = 0 THEN <<>> ELSE F[k - 1] \o subs[<<strategy, k>>].value
  IN IF \E k \in 1..Live(strategy) :
          subs[<<strategy, k>>].state = "settled" /\ ~subs[<<strategy, k>>].ok
     THEN <<>> ELSE F[Live(strategy)]

\* The array a strategy returns: after allSettled, the values of its
\* sub-queries pushed in the order the queries were sent.
StrategyPosts(strategy, subs) ==
  LET F[k \in 0..Live(strategy)] ==
        IF k = 0 THEN <<>> ELSE F[k - 1] \o subs[<<strategy, k>>].value
  IN F[Live(strategy)]

\* A strategy promise of searchPromises: pending, or fulfilled with a value.
NotSettled == [settled |-> FALSE, value |-> <<>>]

Fulfilled(value) == [settled |-> TRUE, value |-> value]

\* MergePost where a later copy replaces the one already admitted.
MergePost_LastWins(all, post) ==
  IF \E i \in 1..Len(all) : all[i].id = post.id
  THEN [i \in 1..Len(all) |-> IF all[i].id = post.id THEN post ELSE all[i]]
  ELSE Append(all, post)

\* The body of the inner loop of the aggregation: a post is pushed unless
\* allPosts already holds one with its id.
MergePost(all, post) ==
  IF \E i \in 1..Len(all) : all[i].id = post.id THEN all ELSE Append(all, post)

\* The inner loop over incoming[lo..hi]: the front half, then (once that has
\* been worked out) the back half.
RECURSIVE MergeRange(_, _, _, _)
MergeRange(all, incoming, lo, hi) ==
  IF lo > hi THEN all
  ELSE IF lo = hi THEN MergePost(all, incoming[lo])
  ELSE LET mid == (lo + hi) \div 2
           front == MergeRange(all, incoming, lo, mid)
       IN IF Len(front) >= 0 THEN MergeRange(front, incoming, mid + 1, hi) ELSE front

MergeInto(all, incoming) == MergeRange(all, incoming, 1, Len(incoming))

\* The outer loop: the fulfilled strategy results, in searchPromises order.
MergeResults(results) ==
  LET F[i \in 0..Len(results)] ==
        IF i = 0 THEN <<>>
        ELSE IF results[i].settled THEN MergeInto(F[i - 1], results[i].value)
        ELSE F[i - 1]
  IN F[Len(results)]

\* SortByEngagement that leaves the merge order.
SortByEngagement_Unsorted(all) == all

\* allPosts.sort((a, b) => (b.score + b.num_comments) - (a.score + a.num_comments))
SortByEngagement(all) == SortDesc(all, PostEngagement)

\* sortedPosts.slice(0, Math.min(maxPosts, allPosts.length))
ReturnedPosts(sortedPosts) == slice0(sortedPosts, Min(maxPosts, Len(sortedPosts)))

\* --------------------------------------------------- the content source

\* The search terms of the requests.
SearchTerms == {"notion", "Tesla Model 3"}

\* A listing entry for post i as the content source reports it at one moment:
\* its score has moved by bump since the post table was written.
ListingEntry(i, bump) ==
  LET post == Post(i)
  IN [ id |-> post.id, title |-> post.title, selftext |-> post.selftext,
       score |-> post.score + bump, num_comments |-> post.num_comments,
       url |-> post.url, subreddit |-> post.subreddit, created_utc |-> post.created_utc ]

BulkEntry(i) ==
  LET post == BulkPost(i)
  IN [ id |-> post.id, title |-> post.title, selftext |-> post.selftext,
       score |-> post.score, num_comments |-> post.num_comments,
       url |-> post.url, subreddit |-> post.subreddit, created_utc |-> post.created_utc ]

\* Entries the ingestion filter rejects: no title; a short title and no body.
UntitledEntry == [ListingEntry(1, 0) EXCEPT !.id = "u1", !.title = ""]

LinkEntry == [ListingEntry(1, 0) EXCEPT !.id = "k1", !.title = "Look at this", !.selftext = ""]

\* Length of the long listing of the direct query (beyond maxPosts).
SearchBulkLen == 52

\* The listings the content source can answer a sub-query with.  Later
\* queries see posts of earlier ones again, with other scores.
ListingsFor(q) ==
  CASE q[1] = "direct" ->
         { << ListingEntry(1, 0), ListingEntry(2, 0) >>,
           [i \in 1..SearchBulkLen |-> BulkEntry(i)] }
    [] q[1] = "community" ->
         { << ListingEntry(q[2] + 1, q[2]), UntitledEntry, ListingEntry(q[2] + 2, 0) >> }
    [] q[1] = "variation" ->
         { [i \in 1..(VariationLimit \div 10) + 1 |-> ListingEntry(i, 10 + q[2])] }
    [] q[1] = "time" ->
         { << ListingEntry(q[2] + 3, 20), LinkEntry, BulkEntry(q[2]) >> }

ListingResponses(q) ==
  {ListingResponse(FALSE, <<>>)} \cup {ListingResponse(TRUE, l) : l \in ListingsFor(q)}

SuggestionResponses ==
  { SuggestionResponse("throw", <<>>),
    SuggestionResponse("badjson", <<>>),
    SuggestionResponse("array", <<>>),
    SuggestionResponse("array", << "Notion" >>),
    SuggestionResponse("array", << "Notion", "productivity", "apps", "software",
                                   "technology", "SaaS", "techsupport", "complaints",
                                   "mildlyinfuriating" >>) }

\* ------------------------------------------------------------- the state

VARIABLES
  pc,                  \* where POST /api/analyze stands
  posts,               \* const posts = await redditClient.getPostsWithComments(...)
  initialPainPoints,   \* PainPointExtractor.extractPainPoints(posts)
  batchNo,             \* the batch whose generation request is in flight
  relevantPainPoints,  \* the accumulator of aiFilterRelevantPainPoints
  filterLog,           \* per settled batch: the batch, the answer, what was appended
  painPoints,          \* the value aiFilterRelevantPainPoints returned
  filteredPainPoints,  \* PainPointExtractor.filterByEngagement(painPoints, 2)
  finalPainPoints,     \* the list handed to geminiAnalyzer.categorizePainPoints
  response,            \* the body of the HTTP response, once sent
  catResp,             \* the answer to the categorization request, once settled
  categories,          \* the value performCategorization returned
  summaries,           \* per category: its summary, or Pending while in flight
  searchTerm,          \* the term getPostsWithComments was called with
  aiSuggestion,        \* the answer to the suggestion request, once settled
  suggestedSubreddits, \* the value getAISuggestedSubreddits returned
  subQueries,          \* per followed sub-query: unsent, in flight, or settled
  searchResults,       \* per strategy: the promise in searchPromises
  allPosts,            \* the merged posts (sorted in place before the return)
  progress             \* the states written to the progress file of the analysis id

routeVars ==
  << pc, posts, initialPainPoints, batchNo, relevantPainPoints, filterLog,
     painPoints, filteredPainPoints, finalPainPoints, response >>

catVars == << catResp, categories, summaries >>

searchVars ==
  << searchTerm, aiSuggestion, suggestedSubreddits, subQueries, searchResults, allPosts >>

NoResponse == [kind |-> "none"]

NoCatResp == CategorizationResponse("none", FALSE, <<>>)

Pending == "<pending>"

CatIdle ==
  /\ catResp = NoCatResp
  /\ categories = <<>>
  /\ summaries = <<>>

NoSuggestion == SuggestionResponse("none", <<>>)

\* The term of the requests that are followed past the search.
RouteTerm == "notion"

SearchIdle ==
  /\ searchTerm = RouteTerm
  /\ aiSuggestion = NoSuggestion
  /\ suggestedSubreddits = <<>>
  /\ subQueries = [q \in QueryIds |-> Unsent]
  /\ searchResults = [i \in 1..Len(Strategies) |-> NotSettled]
  /\ allPosts = <<>>

NoPostsMessage ==
  "No posts found for this search term. Try a different search term or check if it's spelled correctly."

NoPainPointsMessage ==
  "No relevant complaints or pain points found in the posts. The discussions might be mostly positive or off-topic."

\* The response of the catch of POST for an error whose message names neither
\* a missing key nor a rate limit.
\* The message of the TypeError fallbackCategorization throws.
FallbackTypeError == "painPoint.content.toLowerCase is not a function"

\* The catch of POST, for an Error with this message.
RouteCatch(message) ==
  IF includes(message, "REDDIT_CLIENT_ID")
  THEN [ kind |-> "error", status |-> 500,
         error |-> "Reddit API configuration is missing. Please check your environment variables." ]
  ELSE IF includes(message, "GEMINI_API_KEY")
  THEN [ kind |-> "error", status |-> 500,
         error |-> "Gemini API configuration is missing. Please check your environment variables." ]
  ELSE IF includes(message, "rate limit") \/ includes(message, "quota")
  THEN [ kind |-> "error", status |-> 429,
         error |-> "API rate limit exceeded. Please try again later." ]
  ELSE [ kind |-> "error", status |-> 500,
         error |-> "An error occurred during analysis. Please try again." ]

ErrorResponse == RouteCatch(FallbackTypeError)

EmptyResult(message) ==
  [ kind |-> "result", categories |-> <<>>, totalPainPoints |-> 0,
    topCategories |-> <<>>, message |-> message ]

\* ProgressTracker.updateProgress: the state is written to the file of the
\* analysis id (a write that fails is logged and leaves the file as it was;
\* writes are taken to succeed).
updateProgress(written, stage, value) ==
  Append(written, [stage |-> stage, progress |-> value])

\* The updates of POST before it awaits getPostsWithComments.
ProgressBeforeSearch ==
  updateProgress(updateProgress(<<>>, "setup", 5), "searching", 10)

\* The updates of POST from the return of getPostsWithComments (value found,
\* extracted its candidates) to the call of aiFilterRelevantPainPoints.
ProgressOnSearchReturn(written, found) ==
  LET counted == updateProgress(written, "searching", 35)
  IN IF Len(found) = 0
     THEN updateProgress(counted, "complete", 100)
     ELSE updateProgress(updateProgress(counted, "extracting", 50), "extracting", 55)

\* The updates of POST from the return of aiFilterRelevantPainPoints (value
\* kept) to the call of categorizePainPoints.
ProgressAfterFilter(written, kept) ==
  LET identified == updateProgress(written, "extracting", 60)
  IN IF Len(kept) = 0
     THEN updateProgress(identified, "complete", 100)
     ELSE updateProgress(
            updateProgress(updateProgress(identified, "filtering", 70), "filtering", 75),
            "categorizing", 80)

\* ProgressAfterCategorization without the update of completion.
ProgressAfterCategorization_NoComplete(written) == updateProgress(written, "summarizing", 90)

\* The updates of POST after categorizePainPoints has returned.
ProgressAfterCategorization(written) ==
  updateProgress(updateProgress(written, "summarizing", 90), "complete", 100)

\* The updates written when POST awaits categorizePainPoints.
ProgressBeforeCategorization ==
  ProgressAfterFilter(ProgressOnSearchReturn(ProgressBeforeSearch, << 1 >>), << 1 >>)

\* The threshold POST passes to filterByEngagement.
RouteMinScore == 2

RouteInit ==
  /\ pc = "searching"
  /\ progress = ProgressBeforeSearch
  /\ posts = <<>>
  /\ initialPainPoints = <<>>
  /\ batchNo = 0
  /\ relevantPainPoints = <<>>
  /\ filterLog = <<>>
  /\ painPoints = <<>>
  /\ filteredPainPoints = <<>>
  /\ finalPainPoints = <<>>
  /\ response = NoResponse
  /\ CatIdle
  /\ SearchIdle

\* AfterFilter without the relaxation `filtered.length > 0 ? filtered : painPoints`.
AfterFilter_NoRelaxation(kept) ==
  /\ painPoints' = kept
  /\ IF Len(kept) = 0
     THEN /\ response' = EmptyResult(NoPainPointsMessage)
          /\ pc' = "done"
          /\ UNCHANGED << filteredPainPoints, finalPainPoints >>
     ELSE /\ filteredPainPoints' = filterByEngagement(kept, RouteMinScore)
          /\ finalPainPoints' = filterByEngagement(kept, RouteMinScore)
          /\ response' = response
          /\ pc' = "categorizing"

\* POST from the return of aiFilterRelevantPainPoints (value kept) to its next
\* await: the empty check, the engagement gate with its relaxation, and the
\* call of categorizePainPoints.
AfterFilter(kept) ==
  /\ painPoints' = kept
  /\ IF Len(kept) = 0
     THEN /\ response' = EmptyResult(NoPainPointsMessage)
          /\ pc' = "done"
          /\ UNCHANGED << filteredPainPoints, finalPainPoints >>
     ELSE LET filtered == filterByEngagement(kept, RouteMinScore)
          IN /\ filteredPainPoints' = filtered
             /\ finalPainPoints' = IF Len(filtered) > 0 THEN filtered ELSE kept
             /\ response' = response
             /\ pc' = "categorizing"

\* SearchReturns without the `posts.length === 0` return.
SearchReturns_NoEmptyCheck(found) ==
  /\ pc = "searching"
  /\ posts' = found
  /\ UNCHANGED << relevantPainPoints, filterLog, catVars >>
  /\ LET extracted == extractPainPoints(found)
         written == updateProgress(updateProgress(updateProgress(progress,
                      "searching", 35), "extracting", 50), "extracting", 55)
     IN /\ initialPainPoints' = extracted
        /\ IF Len(extracted) = 0
           THEN /\ batchNo' = batchNo
                /\ progress' = ProgressAfterFilter(written, <<>>)
                /\ AfterFilter(<<>>)
           ELSE /\ batchNo' = 1
                /\ progress' = written
                /\ pc' = "filtering"
                /\ UNCHANGED << painPoints, filteredPainPoints,
                                finalPainPoints, response >>

\* getPostsWithComments resolves with found: POST runs to its next await (the
\* empty check, the extraction, and aiFilterRelevantPainPoints up to its first
\* generation request).
SearchReturns(found) ==
  /\ pc = "searching"
  /\ posts' = found
  /\ UNCHANGED << relevantPainPoints, filterLog, catVars >>
  /\ IF Len(found) = 0
     THEN /\ progress' = ProgressOnSearchReturn(progress, found)
          /\ response' = EmptyResult(NoPostsMessage)
          /\ pc' = "done"
          /\ UNCHANGED << initialPainPoints, batchNo, painPoints,
                          filteredPainPoints, finalPainPoints >>
     ELSE LET extracted == extractPainPoints(found)
              written == ProgressOnSearchReturn(progress, found)
          IN /\ initialPainPoints' = extracted
             /\ IF Len(extracted) = 0
                THEN /\ batchNo' = batchNo
                     /\ progress' = ProgressAfterFilter(written, <<>>)
                     /\ AfterFilter(<<>>)
                ELSE /\ batchNo' = 1
                     /\ progress' = written
                     /\ pc' = "filtering"
                     /\ UNCHANGED << painPoints, filteredPainPoints,
                                     finalPainPoints, response >>

\* The generation request of the batch in flight settles with resp: the
\* try/catch of that batch runs, then the next request is sent or the filter
\* returns and POST goes on.
RelevanceBatchSettles(resp) ==
  /\ pc = "filtering"
  /\ LET batch == BatchAt(initialPainPoints, batchNo)
         added == BatchContribution(batch, resp)
         acc == relevantPainPoints \o added
     IN /\ relevantPainPoints' = acc
        /\ filterLog' = Append(filterLog, [batch |-> batch, resp |-> resp, added |-> added])
        /\ UNCHANGED << posts, initialPainPoints, catVars >>
        /\ IF batchNo < NumBatches(initialPainPoints)
           THEN /\ batchNo' = batchNo + 1
                /\ UNCHANGED << pc, painPoints, filteredPainPoints,
                                finalPainPoints, response, progress >>
           ELSE /\ batchNo' = 0
                /\ progress' = ProgressAfterFilter(progress, acc)
                /\ AfterFilter(acc)

SearchStep ==
  /\ \E found \in SearchOutcomes : SearchReturns(found)
  /\ UNCHANGED searchVars

FilterStep ==
  /\ pc = "filtering"
  /\ \E resp \in RelevanceResponses(Len(BatchAt(initialPainPoints, batchNo))) :
       RelevanceBatchSettles(resp)
  /\ UNCHANGED searchVars

RouteNext == SearchStep \/ FilterStep

\* ---------------------------------------------- categorizePainPoints

\* The categorization request settles with resp: performCategorization
\* throws (the rejection reaches the catch of POST, which responds with an
\* error), or it returns and generateCategorySummaries sends one request per
\* category (with no category, Promise.all resolves at once and the result is
\* assembled).
CategorizationSettles(resp) ==
  /\ pc = "categorizing"
  /\ catResp' = resp
  /\ IF CategorizationThrows(finalPainPoints, resp)
     THEN /\ categories' = <<>>
          /\ summaries' = <<>>
          /\ response' = ErrorResponse
          /\ progress' = progress
          /\ pc' = "done"
     ELSE LET cats == performCategorization(finalPainPoints, resp)
          IN /\ categories' = cats
             /\ summaries' = [k \in 1..Len(cats) |->
                                IF k <= LiveSummaries THEN Pending
                                ELSE trim(GeneratedSummary)]
             /\ IF Len(cats) = 0
                THEN /\ response' = AnalysisResult(<<>>, finalPainPoints)
                     /\ progress' = ProgressAfterCategorization(progress)
                     /\ pc' = "done"
                ELSE /\ response' = response
                     /\ progress' = progress
                     /\ pc' = "summarizing"
  /\ UNCHANGED << posts, initialPainPoints, batchNo, relevantPainPoints, filterLog,
                  painPoints, filteredPainPoints, finalPainPoints >>

\* The summary request of category k settles (ok: with a text; otherwise it
\* throws and the catch substitutes the template).  When it is the last one,
\* Promise.all resolves, categorizePainPoints returns and POST responds.
SummarySettles(k, ok) ==
  /\ pc = "summarizing"
  /\ k \in 1..Len(categories)
  /\ summaries[k] = Pending
  /\ LET text == IF ok THEN trim(GeneratedSummary) ELSE TemplatedSummary(categories[k])
         settled == [summaries EXCEPT ![k] = text]
         categoriesWithSummaries ==
           [j \in 1..Len(categories) |-> [categories[j] EXCEPT !.summary = settled[j]]]
     IN /\ summaries' = settled
        /\ IF \A j \in 1..Len(settled) : settled[j] # Pending
           THEN /\ response' = AnalysisResult(categoriesWithSummaries, finalPainPoints)
                /\ progress' = ProgressAfterCategorization(progress)
                /\ pc' = "done"
           ELSE /\ response' = response
                /\ progress' = progress
                /\ pc' = pc
  /\ UNCHANGED << posts, initialPainPoints, batchNo, relevantPainPoints, filterLog,
                  painPoints, filteredPainPoints, finalPainPoints, catResp, categories >>

CategorizationStep ==
  /\ pc = "categorizing"
  /\ \E resp \in CategorizationResponses(Len(finalPainPoints)) : CategorizationSettles(resp)
  /\ UNCHANGED searchVars

SummaryStep ==
  /\ pc = "summarizing"
  /\ \E k \in 1..Len(categories), ok \in BOOLEAN : SummarySettles(k, ok)
  /\ UNCHANGED searchVars

\* categorizePainPoints called with a list the route can hand to it.
CatInit ==
  /\ pc = "categorizing"
  /\ progress = ProgressBeforeCategorization
  /\ finalPainPoints \in CatInputs
  /\ posts = <<>>
  /\ initialPainPoints = <<>>
  /\ batchNo = 0
  /\ relevantPainPoints = <<>>
  /\ filterLog = <<>>
  /\ painPoints = <<>>
  /\ filteredPainPoints = <<>>
  /\ response = NoResponse
  /\ CatIdle
  /\ SearchIdle

CatNext == CategorizationStep \/ SummaryStep

\* ------------------------------------------------ getPostsWithComments

\* getPostsWithComments is called: the four strategies run to their first
\* await.  The direct, variation and time strategies have sent their queries;
\* the community strategy has sent the suggestion request.
SearchInit ==
  /\ pc = "searching"
  /\ progress = ProgressBeforeSearch
  /\ posts = <<>>
  /\ initialPainPoints = <<>>
  /\ batchNo = 0
  /\ relevantPainPoints = <<>>
  /\ filterLog = <<>>
  /\ painPoints = <<>>
  /\ filteredPainPoints = <<>>
  /\ finalPainPoints = <<>>
  /\ response = NoResponse
  /\ CatIdle
  /\ searchTerm \in SearchTerms
  /\ aiSuggestion = NoSuggestion
  /\ suggestedSubreddits = <<>>
  /\ subQueries = [q \in QueryIds |-> IF q[1] = "community" THEN Unsent ELSE InFlight]
  /\ searchResults = [i \in 1..Len(Strategies) |-> NotSettled]
  /\ allPosts = <<>>

\* The suggestion request settles with resp: getAISuggestedSubreddits returns
\* (the suggested names, or the fallback list when the request or the parsing
\* fails) and performAISubredditSearch sends one query per subreddit.
SuggestionSettles(resp) ==
  /\ pc = "searching"
  /\ UNCHANGED progress
  /\ aiSuggestion = NoSuggestion
  /\ LET suggested == getAISuggestedSubreddits(searchTerm, resp)
     IN /\ aiSuggestion' = resp
        /\ suggestedSubreddits' = suggested
        /\ subQueries' = [q \in QueryIds |->
                            IF q \in SentBy("community", searchTerm, suggested)
                            THEN InFlight ELSE subQueries[q]]
  /\ UNCHANGED << searchTerm, searchResults, allPosts, routeVars, catVars >>

\* SubQuerySettles where the posts of a strategy are merged into allPosts as
\* soon as that strategy returns.
SubQuerySettles_MergeAsSettled(q, resp) ==
  /\ pc = "searching"
  /\ UNCHANGED progress
  /\ subQueries[q].state = "pending"
  /\ LET limit == PerQueryLimit(q[1], searchTerm, suggestedSubreddits)
         subs == [subQueries EXCEPT ![q] = Settled(resp, SubQueryValue(resp, limit))]
         results ==
           [i \in 1..Len(Strategies) |->
              IF StrategySettled(Strategies[i], searchTerm, suggestedSubreddits, subs)
              THEN Fulfilled(StrategyPosts(Strategies[i], subs))
              ELSE NotSettled]
         newly == [i \in 1..Len(Strategies) |->
                     IF results[i].settled /\ ~searchResults[i].settled
                     THEN results[i] ELSE NotSettled]
         merged == MergeResults(<< Fulfilled(allPosts) >> \o newly)
     IN /\ subQueries' = subs
        /\ searchResults' = results
        /\ IF \A i \in 1..Len(results) : results[i].settled
           THEN /\ allPosts' = SortByEngagement(merged)
                /\ posts' = ReturnedPosts(SortByEngagement(merged))
                /\ pc' = "searched"
           ELSE /\ allPosts' = merged
                /\ UNCHANGED << posts, pc >>
  /\ UNCHANGED << searchTerm, aiSuggestion, suggestedSubreddits, initialPainPoints,
                  batchNo, relevantPainPoints, filterLog, painPoints,
                  filteredPainPoints, finalPainPoints, response, catVars >>

\* The sub-query q settles with resp: its promise resolves; when it is the
\* last one of its strategy the strategy returns, and when that is the last
\* strategy, Promise.allSettled(searchPromises) resolves and
\* getPostsWithComments merges, sorts, cuts and returns.
SubQuerySettles(q, resp) ==
  /\ pc = "searching"
  /\ UNCHANGED progress
  /\ subQueries[q].state = "pending"
  /\ LET limit == PerQueryLimit(q[1], searchTerm, suggestedSubreddits)
         subs == [subQueries EXCEPT ![q] = Settled(resp, SubQueryValue(resp, limit))]
         results ==
           [i \in 1..Len(Strategies) |->
              IF StrategySettled(Strategies[i], searchTerm, suggestedSubreddits, subs)
              THEN Fulfilled(StrategyPosts(Strategies[i], subs))
              ELSE NotSettled]
         sortedPosts == SortByEngagement(MergeResults(results))
     IN /\ subQueries' = subs
        /\ searchResults' = results
        /\ IF \A i \in 1..Len(results) : results[i].settled
           THEN /\ allPosts' = sortedPosts
                /\ posts' = ReturnedPosts(sortedPosts)
                /\ pc' = "searched"
           ELSE UNCHANGED << allPosts, posts, pc >>
  /\ UNCHANGED << searchTerm, aiSuggestion, suggestedSubreddits, initialPainPoints,
                  batchNo, relevantPainPoints, filterLog, painPoints,
                  filteredPainPoints, finalPainPoints, response, catVars >>

SuggestionStep == \E resp \in SuggestionResponses : SuggestionSettles(resp)

SubQueryStep == \E q \in QueryIds : \E resp \in ListingResponses(q) : SubQuerySettles(q, resp)

SearchNext == SuggestionStep \/ SubQueryStep

vars == << routeVars, catVars, searchVars, progress >>

Init == RouteInit

Next == RouteNext

\* POST /api/analyze from the search result to the call of the categorizer.
Spec == Init /\ [][Next]_vars

\* categorizePainPoints, from its call to the response.
SpecCat == CatInit /\ [][CatNext]_vars

\* getPostsWithComments, from its call to its return.
SpecSearch == SearchInit /\ [][SearchNext]_vars

\* What a settling sub-query does to subQueries alone (SubQuerySettles, its
\* first assignment). A step of the search changes a pending entry into a
\* settled one exactly when it is a SubQuerySettles step, and one is possible
\* exactly when a sent query is pending.
SubQueryAnswered ==
  /\ pc = "searching"
  /\ \E q \in QueryIds :
       /\ subQueries[q].state = "pending"
       /\ \E resp \in ListingResponses(q) :
            subQueries' = [subQueries EXCEPT ![q] =
                             Settled(resp, SubQueryValue(resp,
                                       PerQueryLimit(q[1], searchTerm, suggestedSubreddits)))]

\* The search with a content source that answers (or refuses) every query
\* sent to it.  No fairness is put on the suggestion request: the code sets
\* no timer on generateContent and races it against nothing, so a request
\* the service never answers stays in flight.
SpecSearchLive == SearchInit /\ [][SearchNext]_vars /\ WF_subQueries(SubQueryAnswered)

\* ------------------------------------------------------- the whole run

\* The search results of the runs followed from the search to the response:
\* no post; a post without a complaint; a post with one; two posts of little
\* engagement; a post of much and one of little engagement.
RunSearchOutcomes ==
  { <<>>, << Post(3) >>, << Post(1) >>, AsReturnedBySearch({Post(4), Post(5)}),
    AsReturnedBySearch({Post(1), Post(4)}) }

\* The answers to the request for a batch of n candidates in these runs.
RunRelevanceResponses(n) ==
  { RelevanceResponse("throw", <<>>),
    RelevanceResponse("quota", <<>>),
    RelevanceResponse("object", <<>>),
    RelevanceResponse("array", Rep(VDrop, n)),
    RelevanceResponse("array", Rep(VAsIs, n)),
    RelevanceResponse("array", Rep(VRestated, n + 1)),
    RelevanceResponse("array", Rep(VNumber, n)) }

\* The answers to the categorization request in these runs.
RunCategorizationResponses ==
  { CategorizationResponse("throw", FALSE, <<>>),
    CategorizationResponse("quota", FALSE, <<>>),
    CategorizationResponse("badjson", FALSE, <<>>),
    CategorizationResponse("parsed", TRUE, <<>>),
    CategorizationResponse("parsed", TRUE, <<AnswerCategory("Speed & Stability", <<0>>)>>),
    CategorizationResponse("parsed", TRUE,
      <<AnswerCategory("Speed & Stability", <<0>>),
        AnswerCategory("Design Problems", <<1, 0>>)>>) }

RunSearchStep ==
  /\ \E found \in RunSearchOutcomes : SearchReturns(found)
  /\ UNCHANGED searchVars

RunFilterStep ==
  /\ pc = "filtering"
  /\ \E resp \in RunRelevanceResponses(Len(BatchAt(initialPainPoints, batchNo))) :
       RelevanceBatchSettles(resp)
  /\ UNCHANGED searchVars

RunCategorizationStep ==
  /\ pc = "categorizing"
  /\ \E resp \in RunCategorizationResponses : CategorizationSettles(resp)
  /\ UNCHANGED searchVars

RunNext == RunSearchStep \/ RunFilterStep \/ RunCategorizationStep \/ SummaryStep

\* POST /api/analyze from the search result to the response.
SpecRun == RouteInit /\ [][RunNext]_vars

\* ================================================================ claims

UniqueIds(points) ==
  \A i, j \in 1..Len(points) : i # j => points[i].id # points[j].id

\* aiFilterRelevantPainPoints has returned (or was never reached).
FilterReturned == pc \in {"categorizing", "done"}

\* A batch whose answer is a failure: the request threw, the text is not JSON,
\* or it is JSON but no list of verdict objects (null, an object, or a list
\* with a null element).
BatchFailed(resp) ==
  \/ resp.kind \in {"throw", "badjson", "null", "object"}
  \/ \E i \in 1..Len(resp.items) : resp.items[i].isNull

\* C4 (as claimed): the output of the relevance filter is never longer than
\* its input, whatever the model answers.
C4_OutputNoLongerThanInput ==
  /\ Len(relevantPainPoints) <= Len(initialPainPoints)
  /\ FilterReturned => Len(painPoints) <= Len(initialPainPoints)

\* C5 (as claimed): a batch that failed contributes exactly its own members,
\* with their original content, to the output.
C5_FailedBatchPassedThrough ==
  \A k \in 1..Len(filterLog) :
    BatchFailed(filterLog[k].resp) => filterLog[k].added = filterLog[k].batch

\* C6 (as claimed): with posts of pairwise distinct ids, no two candidates
\* share an id after extraction, in or after the relevance filter, or in the
\* list handed to the categorizer.
C6_CandidateIdsUnique ==
  /\ UniqueIds(initialPainPoints)
  /\ UniqueIds(relevantPainPoints)
  /\ UniqueIds(painPoints)
  /\ UniqueIds(finalPainPoints)

\* The positions of painPoints whose candidate has engagementScore >= 2.
HighEngagement == {i \in 1..Len(painPoints) : painPoints[i].present
                                               /\ painPoints[i].engagementScore >= 2}

\* The candidates of points at the positions in keep, in order.
RECURSIVE Pick(_, _, _)
Pick(points, keep, i) ==
  IF i > Len(points) THEN <<>>
  ELSE (IF i \in keep THEN <<points[i]>> ELSE <<>>) \o Pick(points, keep, i + 1)

\* C7: once the filter has returned a non-empty list, the list handed to the
\* categorizer is non-empty: it is the candidates with engagementScore >= 2 if
\* there are any, and the whole filter output otherwise.
C7_GateNeverEmpties ==
  (FilterReturned /\ Len(painPoints) > 0) =>
    /\ pc = "categorizing"
    /\ Len(finalPainPoints) > 0
    /\ finalPainPoints = IF HighEngagement # {}
                         THEN Pick(painPoints, HighEngagement, 1)
                         ELSE painPoints

\* C7 witness: the relaxation is used (no candidate reaches the threshold).
C7_Witness_Relaxed ==
  /\ pc = "categorizing"
  /\ Len(painPoints) > 0
  /\ HighEngagement = {}
  /\ finalPainPoints = painPoints

\* ------------------------------------------------ claims on the categorizer

\* The categorization request has settled.
Categorized ==
  /\ pc \in {"summarizing", "done"}
  /\ catResp # NoCatResp
  /\ response.kind # "error"

\* How often candidate c occurs in the list points.
Occurrences(c, points) == Cardinality({i \in 1..Len(points) : points[i] = c})

\* The categories of cats that have candidate c as a member.
CategoriesOf(c, cats) == {k \in 1..Len(cats) : c \in Range(cats[k].painPoints)}

RECURSIVE SumCounts(_, _)
SumCounts(cats, k) == IF k > Len(cats) THEN 0 ELSE cats[k].count + SumCounts(cats, k + 1)

\* cats is a partition of the list input: every candidate of input is in
\* exactly one category, as often as it is in input, no category has another
\* member, and the counts add up to the length of input.
IsPartition(cats, input) ==
  /\ \A i \in 1..Len(input) :
       /\ Cardinality(CategoriesOf(input[i], cats)) = 1
       /\ \A k \in CategoriesOf(input[i], cats) :
            Occurrences(input[i], cats[k].painPoints) = Occurrences(input[i], input)
  /\ \A k \in 1..Len(cats) : Range(cats[k].painPoints) \subseteq Range(input)
  /\ SumCounts(cats, 1) = Len(input)

\* C1: when the fallback path is taken, the returned categories are a
\* partition of the input list and their counts add up to its length, also
\* for more than 50 candidates, and still so in the final result.
C1_FallbackIsPartition ==
  (Categorized /\ TakesFallback(catResp)) =>
    /\ IsPartition(categories, finalPainPoints)
    /\ response.kind = "result" => IsPartition(response.categories, finalPainPoints)

\* C1 witness: the fallback ran on more than 50 candidates and split them.
C1_Witness_FallbackOver50 ==
  /\ Categorized
  /\ TakesFallback(catResp)
  /\ Len(finalPainPoints) > 50
  /\ Len(categories) >= 2
  /\ response.kind = "result"

\* C2 (as claimed): on either path and for every answer, no candidate is a
\* member of two categories or twice a member of one (for an input list
\* without repeated candidates).
C2_NoOverlap ==
  (Categorized /\ UniqueIds(finalPainPoints)) =>
    \A i \in 1..Len(finalPainPoints) :
      /\ Cardinality(CategoriesOf(finalPainPoints[i], categories)) <= 1
      /\ \A k \in 1..Len(categories) :
           Occurrences(finalPainPoints[i], categories[k].painPoints) <= 1

\* C3 (as claimed): every categorization of a non-empty list returns at least
\* one category.
C3_AtLeastOneCategory ==
  (Categorized /\ Len(finalPainPoints) > 0) => Len(categories) >= 1

\* ------------------------------------------------- claims on the search

\* getPostsWithComments has returned.
Searched == pc = "searched"

\* What a sub-query has returned so far.
ReturnedBy(q) ==
  IF subQueries[q].state = "settled" THEN subQueries[q].value ELSE <<>>

StreamOf(strategy) ==
  LET F[k \in 0..Live(strategy)] ==
        IF k = 0 THEN <<>> ELSE F[k - 1] \o ReturnedBy(<<strategy, k>>)
  IN F[Live(strategy)]

\* The documents the sub-queries returned, strategy after strategy in the
\* order Direct, Community, Variation, Time-sliced, and within a strategy in
\* the order of its queries.
SeenStream ==
  StreamOf("direct") \o StreamOf("community") \o StreamOf("variation") \o StreamOf("time")

\* The positions of a stream that show an id for the first time.
FirstSeenAt(stream) ==
  {j \in 1..Len(stream) : \A k \in 1..(j - 1) : stream[k].id # stream[j].id}

\* C8: the returned sequence (and the merged one it is cut from) holds no id
\* twice, and each of its documents is, field for field, the copy of its id
\* that comes first when the strategy outputs are read in the order Direct,
\* Community, Variation, Time-sliced.
C8_FirstSeenWins ==
  Searched =>
    LET stream == SeenStream
        first == FirstSeenAt(stream)
    IN /\ UniqueIds(posts)
       /\ UniqueIds(allPosts)
       /\ \A i \in 1..Len(allPosts) : \E j \in first : stream[j] = allPosts[i]
       /\ \A i \in 1..Len(posts) : \E j \in first : stream[j] = posts[i]

\* C8 witness: one id came back from two strategies, and another from two
\* queries of one strategy, each time as two different copies; the copy
\* returned is the earlier one.
C8_Witness_TwoCopies ==
  /\ Searched
  /\ \E q1, q2 \in QueryIds :
       /\ q1[1] = "direct" /\ q2[1] # "direct"
       /\ \E d1 \in Range(ReturnedBy(q1)), d2 \in Range(ReturnedBy(q2)) :
            d1.id = d2.id /\ d1 # d2 /\ d1 \in Range(posts)
  /\ \E q1, q2 \in QueryIds :
       /\ q1[1] = q2[1] /\ q1[2] < q2[2]
       /\ \E d1 \in Range(ReturnedBy(q1)), d2 \in Range(ReturnedBy(q2)) :
            d1.id = d2.id /\ d1 # d2 /\ d1 \in Range(posts)

\* The merged documents that are not returned.
LeftOut ==
  LET stream == SeenStream
  IN {stream[j] : j \in FirstSeenAt(stream)} \ Range(posts)

\* C9: the returned sequence is in non-increasing order of score +
\* num_comments, is no longer than config.app.maxPosts = 50, and no merged
\* document left out has more engagement than a returned one.
C9_SortedAndCapped ==
  Searched =>
    /\ \A i \in 1..(Len(posts) - 1) :
         PostEngagement(posts[i]) >= PostEngagement(posts[i + 1])
    /\ Len(posts) <= 50
    /\ maxPosts = 50
    /\ \A d \in LeftOut : \A i \in 1..Len(posts) :
         PostEngagement(d) <= PostEngagement(posts[i])

\* C9 witness: more than 50 documents were merged, 50 are returned, and the
\* first one returned is not the first one merged.
C9_Witness_Cut ==
  /\ Searched
  /\ Len(posts) = 50
  /\ Cardinality(LeftOut) >= 2
  /\ posts[1] # SeenStream[1]

\* The sub-queries that failed, and those that succeeded.
FailedQueries == {q \in QueryIds : subQueries[q].state = "settled" /\ ~subQueries[q].ok}

SucceededQueries == {q \in QueryIds : subQueries[q].state = "settled" /\ subQueries[q].ok}

\* Nothing is in flight any more.
AllSettled ==
  /\ aiSuggestion # NoSuggestion
  /\ \A q \in QueryIds : subQueries[q].state # "pending"

\* C10: whatever fails (sub-queries, the suggestion request), once nothing is
\* in flight the search has returned; the merged documents are exactly the
\* documents returned by the sub-queries that succeeded (one per id), the
\* result is the merged sequence up to the cap, and it is empty when every
\* sub-query failed.
C10_FailuresSkipped ==
  /\ AllSettled => Searched
  /\ Searched =>
       LET docs == UNION {Range(subQueries[q].value) : q \in SucceededQueries}
       IN /\ Range(allPosts) \subseteq docs
          /\ {d.id : d \in Range(allPosts)} = {d.id : d \in docs}
          /\ posts = SubSeq(allPosts, 1, Min(50, Len(allPosts)))
          /\ SucceededQueries = {} => posts = <<>>

\* C10 witness: the suggestion request threw, the direct query and one
\* community query failed, another community query succeeded, and the search
\* returned the documents of the queries that succeeded.
C10_Witness_PartialFailure ==
  /\ Searched
  /\ aiSuggestion.kind = "throw"
  /\ <<"direct", 1>> \in FailedQueries
  /\ \E q1, q2 \in QueryIds :
       /\ q1[1] = "community" /\ q1 \in FailedQueries
       /\ q2[1] = "community" /\ q2 \in SucceededQueries
       /\ Range(subQueries[q2].value) \subseteq Range(posts)
  /\ Len(posts) > 0

\* ------------------------------------------- extractPainPoints on its own

\* Longest sequence of documents enumerated post by post.
MaxDocs == 2

\* Number of posts of the large document sequence; each yields 4 candidates.
ExtractBulkLen == 26

Comment(id, body, score) ==
  [ id |-> id, body |-> body, score |-> score, created_utc |-> 1700000200,
    author |-> "someone" ]

\* A post with replies: the first is a complaint of its own, the second
\* repeats the body of the post with a higher score, the third is no
\* complaint.
CommentedPost ==
  [Post(4) EXCEPT !.comments =
     << Comment("c1", "Same here, support never answers", 7),
        Comment("c2", "Customer service is rude and the price is too expensive", 30),
        Comment("c3", "Thanks for sharing", 2) >>]

ExtractBulkPost(i) ==
  [BulkPost(i) EXCEPT !.comments =
     << Comment("b" \o IntToStr(i) \o "a", "Crash " \o IntToStr(i) \o " again", i % 3),
        Comment("b" \o IntToStr(i) \o "b", "Glitch " \o IntToStr(i) \o " too", 60 - i) >>]

ExtractDocs == {Post(1), Post(2), Post(3), Post(4), Post(5), Post(6), CommentedPost}

ExtractInputs ==
  UNION {[1..n -> ExtractDocs] : n \in 0..MaxDocs}
    \cup {[i \in 1..ExtractBulkLen |-> ExtractBulkPost(i)]}

\* extractPainPoints is called on a sequence of documents.
ExtractInit ==
  /\ pc = "extracting"
  /\ progress = <<>>
  /\ posts \in ExtractInputs
  /\ initialPainPoints = <<>>
  /\ batchNo = 0
  /\ relevantPainPoints = <<>>
  /\ filterLog = <<>>
  /\ painPoints = <<>>
  /\ filteredPainPoints = <<>>
  /\ finalPainPoints = <<>>
  /\ response = NoResponse
  /\ CatIdle
  /\ SearchIdle

\* The call returns its candidates (kept in initialPainPoints); the static
\* method writes to no field and to none of the documents.
ExtractStep ==
  /\ pc = "extracting"
  /\ UNCHANGED progress
  /\ initialPainPoints' = extractPainPoints(posts)
  /\ pc' = "extracted"
  /\ UNCHANGED << posts, batchNo, relevantPainPoints, filterLog, painPoints,
                  filteredPainPoints, finalPainPoints, response >>
  /\ UNCHANGED << catVars, searchVars >>

\* The second call with the Set of seen keys kept from the first call.
ExtractAgainStep_SharedSeen ==
  /\ pc = "extracted"
  /\ UNCHANGED progress
  /\ LET seenBefore == {DedupKey(initialPainPoints[i]) : i \in 1..Len(initialPainPoints)}
         unseen(point) == DedupKey(point) \notin seenBefore
     IN painPoints' = deduplicateAndSort(SeqFilter(ScannedPainPoints(posts), unseen))
  /\ pc' = "extractedAgain"
  /\ UNCHANGED << posts, initialPainPoints, batchNo, relevantPainPoints, filterLog,
                  filteredPainPoints, finalPainPoints, response >>
  /\ UNCHANGED << catVars, searchVars >>

\* A second call on the same documents (its candidates kept in painPoints).
ExtractAgainStep ==
  /\ pc = "extracted"
  /\ UNCHANGED progress
  /\ painPoints' = extractPainPoints(posts)
  /\ pc' = "extractedAgain"
  /\ UNCHANGED << posts, initialPainPoints, batchNo, relevantPainPoints, filterLog,
                  filteredPainPoints, finalPainPoints, response >>
  /\ UNCHANGED << catVars, searchVars >>

ExtractNext == ExtractStep \/ ExtractAgainStep

SpecExtract == ExtractInit /\ [][ExtractNext]_vars

\* ------------------------------------------ filterByEngagement on its own

\* Longest candidate list enumerated element by element.
MaxGateLen == 3

\* The minScore argument of a call: given, or omitted.
MinScoreGiven(n) == [given |-> TRUE, value |-> n]

MinScoreOmitted == [given |-> FALSE, value |-> 0]

MinScoreArgs == {MinScoreOmitted} \cup {MinScoreGiven(n) : n \in {0, 2, 3, 5, 21}}

\* Candidates of engagement scores 1, 2, 3, 4 and 20, and one without a score.
GateUniverse ==
  {BulkCandidate(i) : i \in 1..4}
    \cup {c \in Range(extractPainPoints(<< Post(1) >>)) : c.source = "title"}
    \cup {NoBatchItem(Restatement)}

GateInputs == UNION {[1..n -> GateUniverse] : n \in 0..MaxGateLen}

\* filterByEngagement is called on a list of candidates (held in painPoints).
GateInit ==
  /\ pc = "gating"
  /\ progress = <<>>
  /\ painPoints \in GateInputs
  /\ posts = <<>>
  /\ initialPainPoints = <<>>
  /\ batchNo = 0
  /\ relevantPainPoints = <<>>
  /\ filterLog = <<>>
  /\ filteredPainPoints = <<>>
  /\ finalPainPoints = <<>>
  /\ response = NoResponse
  /\ CatIdle
  /\ SearchIdle

\* The call with argument arg returns; an omitted minScore takes the default
\* of the parameter.
FilterApplied(arg) ==
  /\ pc = "gating"
  /\ UNCHANGED progress
  /\ filteredPainPoints' =
       filterByEngagement(painPoints, IF arg.given THEN arg.value ELSE DefaultMinScore)
  /\ pc' = "gated"
  /\ UNCHANGED << posts, initialPainPoints, batchNo, relevantPainPoints, filterLog,
                  painPoints, finalPainPoints, response >>
  /\ UNCHANGED << catVars, searchVars >>

GateStep == \E arg \in MinScoreArgs : FilterApplied(arg)

GateNext == GateStep

SpecGate == GateInit /\ [][GateNext]_vars

\* ---------------------------------------------- claims on the whole run

\* C11: once the search has returned no post, the run has responded with
\* totalPainPoints 0, no category, no top category and the message 'No posts
\* found ...', and nothing of the extraction, the relevance filter or the
\* categorizer has run.
C11_NoPostsShortCircuit ==
  (pc # "searching" /\ Len(posts) = 0) =>
    /\ pc = "done"
    /\ response.kind = "result"
    /\ response.totalPainPoints = 0
    /\ response.categories = <<>>
    /\ response.topCategories = <<>>
    /\ response.message =
         "No posts found for this search term. Try a different search term or check if it's spelled correctly."
    /\ initialPainPoints = <<>>
    /\ batchNo = 0
    /\ filterLog = <<>>
    /\ painPoints = <<>>
    /\ finalPainPoints = <<>>
    /\ catResp = NoCatResp
    /\ categories = <<>>
    /\ summaries = <<>>

\* C11 witness: a run that ended on an empty search result.
C11_Witness_NoPosts ==
  /\ pc = "done"
  /\ Len(posts) = 0
  /\ response.kind = "result"

\* The three outcomes of a run, by the counts of its stages.
OutcomeByCounts ==
  IF Len(posts) = 0
  THEN /\ response.message =
            "No posts found for this search term. Try a different search term or check if it's spelled correctly."
       /\ response.totalPainPoints = 0
  ELSE IF Len(painPoints) = 0
  THEN /\ response.message =
            "No relevant complaints or pain points found in the posts. The discussions might be mostly positive or off-topic."
       /\ response.totalPainPoints = 0
       /\ catResp = NoCatResp
  ELSE /\ response.message = ""
       /\ response.totalPainPoints > 0

\* C12 (as claimed): every run that has responded has responded with a
\* result, never with an error, whatever failed and fell back inside the
\* stages; and the result is the one of the three outcomes its stage counts
\* determine.
C12_ThreeOutcomes ==
  pc = "done" => (response.kind = "result" /\ OutcomeByCounts)

\* The run has responded with the result of categorizePainPoints.
Responded == pc = "done" /\ response.kind = "result"

\* Whether r is the mean of the members' engagement scores rounded to the
\* nearest integer (either neighbour for a mean that ends in .5).
IsRoundedMean(r, members) ==
  LET n == Len(members)
      total == TotalEngagement(members)
  IN /\ \A i \in 1..n : members[i].present
     /\ n * (2 * r - 1) <= 2 * total
     /\ 2 * total <= n * (2 * r + 1)

\* C13 (as claimed): in the final result every category has as count the
\* number of its members, at least one member, and as averageEngagement the
\* rounded mean of the engagement scores of its members.
C13_CountAndAverage ==
  Responded =>
    \A k \in 1..Len(response.categories) :
      LET c == response.categories[k]
      IN /\ c.count = Len(c.painPoints)
         /\ c.count >= 1
         /\ ~c.averageIsNaN
         /\ IsRoundedMean(c.averageEngagement, c.painPoints)

\* C14: totalPainPoints of the result of a categorization is the length of
\* the list the categorizer was called with, which is the relevance filter's
\* output after the engagement gate (the whole output when the gate would
\* leave nothing).
C14_TotalIsCategorizerInput ==
  (Responded /\ catResp # NoCatResp) =>
    /\ response.totalPainPoints = Len(finalPainPoints)
    /\ \/ /\ HighEngagement # {}
          /\ Len(finalPainPoints) = Cardinality(HighEngagement)
       \/ /\ HighEngagement = {}
          /\ finalPainPoints = painPoints

\* C14 witness: a result whose totalPainPoints differs from the number of
\* posts, of extracted candidates, of candidates the filter kept, and from the
\* sum of the category counts.
C14_Witness_OtherCountsDiffer ==
  /\ Responded
  /\ catResp # NoCatResp
  /\ response.totalPainPoints # Len(posts)
  /\ response.totalPainPoints # Len(initialPainPoints)
  /\ response.totalPainPoints # Len(painPoints)
  /\ response.totalPainPoints # SumCounts(response.categories, 1)

\* ------------------------------------------- claims on the final result

\* C15: topCategories holds min(10, number of categories) categories, in
\* non-increasing order of count, all of them categories of the full list,
\* and no category outside it has a greater count than one inside.
C15_TopCategories ==
  Responded =>
    LET all == response.categories
        top == response.topCategories
    IN /\ Len(top) = Min(10, Len(all))
       /\ Len(all) = Len(categories)
       /\ \A i \in 1..(Len(top) - 1) : top[i].count >= top[i + 1].count
       /\ Range(top) \subseteq Range(all)
       /\ \A c \in Range(all) \ Range(top) : \A i \in 1..Len(top) : c.count <= top[i].count

\* C15 witness: a result of more than 10 categories of different counts.
C15_Witness_MoreThanTen ==
  /\ Responded
  /\ Len(response.categories) > 10
  /\ Len(response.topCategories) = 10
  /\ Range(response.categories) \ Range(response.topCategories) # {}
  /\ \E i, j \in 1..10 : response.topCategories[i].count > response.topCategories[j].count

\* The categories as generateCategorySummaries returned them: in the order
\* performCategorization produced them, each with its summary.
CategoriesWithSummaries ==
  [k \in 1..Len(categories) |-> [categories[k] EXCEPT !.summary = summaries[k]]]

\* C16 (as claimed): the categories of the result are in the order in which
\* they were produced; building topCategories has not reordered them.
C16_CategoriesKeepOrder ==
  (Responded /\ catResp # NoCatResp) => response.categories = CategoriesWithSummaries

\* C17: a summary request that fails leaves its category with the sentence
\* 'Common issues related to <lower-cased name>', one that succeeds leaves it
\* with the generated text; neither changes the categories, the summary of
\* another category or turns the run into an error, and the result carries
\* every category as it was produced, with its summary.
C17_SummariesNeverFail ==
  /\ [][\A k \in 1..Len(categories) :
          /\ SummarySettles(k, FALSE) =>
               summaries'[k] = "Common issues related to " \o toLowerCase(categories[k].name)
          /\ SummarySettles(k, TRUE) => summaries'[k] = trim(GeneratedSummary)
          /\ (SummarySettles(k, FALSE) \/ SummarySettles(k, TRUE)) =>
               /\ categories' = categories
               /\ \A j \in 1..Len(categories) : j # k => summaries'[j] = summaries[j]
               /\ pc' \in {"summarizing", "done"}
               /\ response'.kind # "error"]_vars
  /\ []((pc = "done" /\ Len(summaries) > 0) =>
          /\ response.kind = "result"
          /\ Len(response.categories) = Len(categories)
          /\ \A k \in 1..Len(categories) :
               /\ summaries[k] # Pending
               /\ \E j \in 1..Len(response.categories) :
                    response.categories[j] = [categories[k] EXCEPT !.summary = summaries[k]])

\* C17 witness: a result in which the request of one category failed and the
\* request of another succeeded.
C17_Witness_SomeFailed ==
  /\ Responded
  /\ \E k, j \in 1..Len(summaries) :
       /\ summaries[k] = "Common issues related to speed & stability"
       /\ summaries[j] = "Users report recurring problems."

\* ------------------------------------------------ claims on extraction

Ids(points) == [i \in 1..Len(points) |-> points[i].id]

Extracted == pc \in {"extracted", "extractedAgain"}

\* Position in the scan of the first candidate with the key of point.
FirstWithKeyOf(scanned, point) ==
  CHOOSE i \in 1..Len(scanned) :
    /\ DedupKey(scanned[i]) = DedupKey(point)
    /\ \A j \in 1..(i - 1) : DedupKey(scanned[j]) # DedupKey(point)

\* C19: no two returned candidates have the same key (the lower-cased first
\* 50 characters of content), and each returned candidate is the first of
\* its key in scan order.
C19_FirstOfKeyKept ==
  Extracted =>
    LET scanned == ScannedPainPoints(posts)
        out == initialPainPoints
        keyOf(c) == substring0(toLowerCase(c.content), 50)
    IN /\ \A i, j \in 1..Len(out) : i # j => keyOf(out[i]) # keyOf(out[j])
       /\ \A i \in 1..Len(out) :
            /\ \E k \in 1..Len(scanned) : keyOf(scanned[k]) = keyOf(out[i])
            /\ out[i] = scanned[FirstWithKeyOf(scanned, out[i])]

\* C19 witness: a candidate was kept although a later one of the same key
\* has a higher engagement score.
C19_Witness_LowerScoreKept ==
  /\ Extracted
  /\ LET scanned == ScannedPainPoints(posts)
     IN \E i \in 1..Len(initialPainPoints), k \in 1..Len(scanned) :
          /\ DedupKey(scanned[k]) = DedupKey(initialPainPoints[i])
          /\ scanned[k].engagementScore > initialPainPoints[i].engagementScore

\* C20: the returned candidates are in non-increasing order of
\* engagementScore, at most 100, and every deduplicated candidate that is not
\* returned has an engagementScore no greater than that of every returned one.
C20_SortedThenCapped ==
  Extracted =>
    LET out == initialPainPoints
        deduplicated == Deduplicated(ScannedPainPoints(posts))
    IN /\ Len(out) = Min(100, Len(deduplicated))
       /\ \A i \in 1..(Len(out) - 1) : out[i].engagementScore >= out[i + 1].engagementScore
       /\ Range(out) \subseteq Range(deduplicated)
       /\ \A c \in Range(deduplicated) \ Range(out) :
            \A i \in 1..Len(out) : c.engagementScore <= out[i].engagementScore

\* C20 witness: more than 100 deduplicated candidates, cut to 100.
C20_Witness_CapCuts ==
  /\ Extracted
  /\ Len(initialPainPoints) = 100
  /\ Len(Deduplicated(ScannedPainPoints(posts))) > 100
  /\ initialPainPoints[1].engagementScore > initialPainPoints[100].engagementScore

\* ------------------------------------------- claims on the engagement gate

\* C21 (as claimed): a call of filterByEngagement returns exactly the
\* candidates whose engagementScore is at least minScore, in input order, and
\* a call without minScore applies the threshold 2.
C21_GateThreshold ==
  [][\A arg \in MinScoreArgs :
       FilterApplied(arg) =>
         LET threshold == IF arg.given THEN arg.value ELSE 2
             passes(point) == point.present /\ point.engagementScore >= threshold
         IN filteredPainPoints' = SelectSeq(painPoints, passes)]_vars

\* ------------------------------------------------- claims on failures

\* A request of the run was refused for its quota: that of a relevance batch
\* or the categorization request.
RateLimited ==
  \/ \E i \in 1..Len(filterLog) : filterLog[i].resp.kind = "quota"
  \/ catResp.kind = "quota"

\* C22 (as claimed): a run in which a request failed with a rate-limit or
\* quota error responds with status 429 and 'API rate limit exceeded. Please
\* try again later.'.
C22_RateLimitSurfaced ==
  (pc = "done" /\ RateLimited) =>
    /\ response.kind = "error"
    /\ response.status = 429
    /\ response.error = "API rate limit exceeded. Please try again later."

\* A generation request of the run failed or its answer could not be parsed:
\* that of a relevance batch, the categorization request, or a summary.
GenerationFailed ==
  \/ \E i \in 1..Len(filterLog) :
       filterLog[i].resp.kind \in {"throw", "quota", "badjson", "null"}
  \/ (catResp # NoCatResp /\ TakesFallback(catResp))
  \/ \E k \in 1..Len(summaries) :
       summaries[k] = "Common issues related to " \o toLowerCase(categories[k].name)

\* C23 (as claimed): a run in which generation requests failed or answered
\* what cannot be parsed still responds with a result, never with an error.
C23_GenerationFailureNotFatal ==
  (pc = "done" /\ GenerationFailed) => response.kind = "result"

\* ------------------------------------------- claims on the search fan-out

\* The first copies of a stream, in stream order.
FirstCopies(stream) == SelectSeq(stream, LAMBDA d : d = stream[CHOOSE j \in FirstSeenAt(stream) : stream[j].id = d.id])

\* C24: nothing is merged before all four strategies have settled; a strategy
\* has settled only when all the sub-queries it sent have, and its value is
\* then what they returned, in the order they were sent; so the documents
\* returned are determined by what the sub-queries answered: the first copies
\* of the stream, by engagement, up to the cap, whatever order they settled in.
C24_JoinBeforeMerge ==
  /\ ~Searched => (allPosts = <<>> /\ posts = <<>>)
  /\ \A i \in 1..Len(Strategies) :
       IF searchResults[i].settled
       THEN /\ \A q \in SentBy(Strategies[i], searchTerm, suggestedSubreddits) :
                 subQueries[q].state = "settled"
            /\ searchResults[i].value = StreamOf(Strategies[i])
       ELSE searchResults[i].value = <<>>
  /\ Searched =>
       /\ \A i \in 1..Len(Strategies) : searchResults[i].settled
       /\ LET merged == FirstCopies(SeenStream)
              byEngagement == SortDesc(merged, PostEngagement)
          IN posts = SubSeq(byEngagement, 1, Min(50, Len(byEngagement)))

\* C24 witness: the search returned while two strategies had each returned a
\* different copy of one id, and a strategy's sub-queries had returned
\* documents of the same engagement.
C24_Witness_OrderWouldMatter ==
  /\ Searched
  /\ \E q1, q2 \in QueryIds :
       /\ q1[1] = "community" /\ q2[1] \in {"variation", "time"}
       /\ \E d1 \in Range(ReturnedBy(q1)), d2 \in Range(ReturnedBy(q2)) :
            d1.id = d2.id /\ d1 # d2 /\ d1 \in Range(posts)
  /\ \E i \in 1..(Len(posts) - 1) : PostEngagement(posts[i]) = PostEngagement(posts[i + 1])

\* C25 (as claimed): a call that never responds is timed out and counted as
\* failed, so the join of the strategies completes and the search returns.
C25_SearchCompletes == <>Searched

\* ------------------------------------------ claims on category membership

\* The categorization answer was parsed and its categories were built from
\* it (no fallback).
PrimaryPath == catResp # NoCatResp /\ ~TakesFallback(catResp)

\* C26 (as claimed): on the primary path every member of a returned category
\* is one of the first 50 candidates of the input, the ones listed in the
\* prompt.
C26_OnlyPromptedCandidates ==
  (Responded /\ PrimaryPath) =>
    \A k \in 1..Len(response.categories) :
      \A j \in 1..Len(response.categories[k].painPoints) :
        \E i \in 1..Min(50, Len(finalPainPoints)) :
          finalPainPoints[i] = response.categories[k].painPoints[j]

\* ------------------------------------------ claims on the relevance filter

\* The answer is a list of verdict objects.
VerdictList(resp) ==
  resp.kind = "array" /\ \A i \in 1..Len(resp.items) : ~resp.items[i].isNull

\* The items of batch from position i on whose verdict is relevant, each with
\* the restatement of its verdict as content unless that is empty.
RECURSIVE KeptByVerdicts(_, _, _)
KeptByVerdicts(batch, items, i) ==
  IF i > Len(batch) THEN <<>>
  ELSE (IF i <= Len(items) /\ items[i].relevant
        THEN << IF items[i].pain_point # ""
                THEN [batch[i] EXCEPT !.content = items[i].pain_point,
                                      !.contentIsString = items[i].isString]
                ELSE batch[i] >>
        ELSE <<>>) \o KeptByVerdicts(batch, items, i + 1)

\* C27 (as claimed): the batches are the consecutive runs of at most 10
\* candidates of the input, and a batch answered with a list of verdict
\* objects contributes exactly its items whose verdict is relevant, in order,
\* with the restatement as content when there is one.
C27_KeptByVerdict ==
  \A k \in 1..Len(filterLog) :
    /\ filterLog[k].batch =
         SubSeq(initialPainPoints, (10 * (k - 1)) + 1, Min(10 * k, Len(initialPainPoints)))
    /\ VerdictList(filterLog[k].resp) =>
         filterLog[k].added = KeptByVerdicts(filterLog[k].batch, filterLog[k].resp.items, 1)

\* ------------------------------------------- claims on candidate identity

\* The candidates in the stage outputs after extraction: the accumulator and
\* the output of the relevance filter, the output of the engagement gate, the
\* list handed to the categorizer, and the members of the returned categories.
StageCandidates ==
  Range(relevantPainPoints) \cup Range(painPoints) \cup Range(filteredPainPoints)
    \cup Range(finalPainPoints)
    \cup (IF response.kind = "result"
          THEN UNION {Range(response.categories[k].painPoints) :
                        k \in 1..Len(response.categories)}
          ELSE {})

\* Candidate c is the extracted candidate e, but for its content.
SameButContent(c, e) ==
  /\ c.present
  /\ c.id = e.id /\ c.source = e.source /\ c.score = e.score
  /\ c.num_comments = e.num_comments /\ c.subreddit = e.subreddit /\ c.url = e.url
  /\ c.created_utc = e.created_utc /\ c.engagementScore = e.engagementScore

\* C28 (as claimed): every candidate in a stage output after extraction is an
\* extracted candidate with all its fields other than content as extraction
\* set them.
C28_IdentityFieldsKept ==
  \A c \in StageCandidates : \E i \in 1..Len(initialPainPoints) :
    SameButContent(c, initialPainPoints[i])

\* ------------------------------------------------ claims on the fallback

RuleOrder ==
  << "Performance Issues", "User Interface", "Bugs & Errors", "Pricing & Value",
     "Customer Service", "Feature Requests", "Quality Issues" >>

\* Whether a keyword of the rule-set of this name occurs in the lower-cased
\* content.
RuleSetMatches(name, lowered) ==
  \E r \in 1..Len(categoryKeywords) :
    /\ categoryKeywords[r].name = name
    /\ \E keyword \in categoryKeywords[r].keywords :
         \E at \in 1..Len(lowered) :
           at + Len(keyword) - 1 <= Len(lowered)
             /\ SubSeq(lowered, at, at + Len(keyword) - 1) = keyword

FirstRuleSet(content) ==
  LET lowered == toLowerCase(content)
      matching == {j \in 1..Len(RuleOrder) : RuleSetMatches(RuleOrder[j], lowered)}
  IN IF matching = {} THEN "Other Issues"
     ELSE RuleOrder[CHOOSE j \in matching : \A h \in matching : j <= h]

ViaFallback == Responded /\ catResp # NoCatResp /\ TakesFallback(catResp)

\* C29: in a result of the fallback, each candidate is a member of the
\* category named after the first rule-set, in table order, with a keyword in
\* its content, of 'Other Issues' when there is none, and of no other
\* category; a candidate containing 'slow' is in Performance Issues.
C29_FirstRuleSetWins ==
  ViaFallback =>
    \A i \in 1..Len(finalPainPoints) :
      LET point == finalPainPoints[i]
          first == FirstRuleSet(point.content)
      IN /\ \E k \in 1..Len(response.categories) : response.categories[k].name = first
         /\ \A k \in 1..Len(response.categories) :
              (point \in Range(response.categories[k].painPoints))
                <=> (response.categories[k].name = first)
         /\ includes(toLowerCase(point.content), "slow") =>
              \E k \in 1..Len(response.categories) :
                /\ response.categories[k].name = "Performance Issues"
                /\ point \in Range(response.categories[k].painPoints)

\* C29 witness: a fallback result with a candidate that matches two rule-sets
\* in the earlier one's category, one with 'slow' in Performance Issues, and
\* one in Other Issues.
C29_Witness_ThreeKinds ==
  /\ ViaFallback
  /\ \E i \in 1..Len(finalPainPoints) :
       /\ RuleSetMatches("User Interface", toLowerCase(finalPainPoints[i].content))
       /\ RuleSetMatches("Quality Issues", toLowerCase(finalPainPoints[i].content))
  /\ \E k \in 1..Len(response.categories) :
       /\ response.categories[k].name = "Performance Issues"
       /\ \E c \in Range(response.categories[k].painPoints) : includes(toLowerCase(c.content), "slow")
  /\ \E k \in 1..Len(response.categories) : response.categories[k].name = "Other Issues"

\* ---------------------------------------------------- claims on progress

FinalUpdateWritten ==
  /\ Len(progress) > 0
  /\ progress[Len(progress)] = [stage |-> "complete", progress |-> 100]

\* C30: the progress values written in a run never decrease; a run that has
\* responded without an error has written the update of stage 'complete' and
\* progress 100 (none is written before the response is decided), and once it
\* is written no other update follows it.
C30_ProgressMonotone ==
  /\ [](/\ \A i \in 1..(Len(progress) - 1) : progress[i].progress <= progress[i + 1].progress
        /\ (pc = "done" /\ response.kind = "result") => FinalUpdateWritten
        /\ \A i \in 1..Len(progress) :
             (progress[i].stage = "complete" \/ progress[i].progress = 100) =>
               (i = Len(progress) /\ response.kind = "result"))
  /\ [][FinalUpdateWritten => progress' = progress]_vars

\* C30 witness: a run over the full path has responded, after the eleven
\* updates from 5 to 100.
C30_Witness_FullPath ==
  /\ pc = "done"
  /\ response.kind = "result"
  /\ Len(response.categories) > 0
  /\ [i \in 1..Len(progress) |-> progress[i].progress]
       = << 5, 10, 35, 50, 55, 60, 70, 75, 80, 90, 100 >>

=============================================================================
